---- MODULE Spec2Model ----
(***************************************************************************)
(* A model of the multibot supervisor: the bot lifecycle manager           *)
(* (src/core/bot_manager.py), the token ledger (src/billing) and the       *)
(* statistics collector (src/stats).  Each subsystem has its own           *)
(* variables and its own specification; a subsystem's specification        *)
(* leaves the other subsystems' variables unchanged.                       *)
(***************************************************************************)
EXTENDS Integers, Sequences, FiniteSets, TLC

VARIABLES
    \* ---- bot manager ----
    bots,       \* BotManager.bots: bot id -> index of its ManagedBot in objs (0: absent)
    objs,       \* every ManagedBot instance ever built, replaced or removed ones included
    tasks,      \* every asyncio task created by _start_polling
    callers,    \* coroutines suspended inside stop_bot / restart_bot / reload_bot / remove_bot
    last,       \* the most recent manager call that returned or raised
    ncalls,     \* how many manager calls have been made
    \* ---- token ledger ----
    free_tokens, \* TokenManager.free_tokens, from the billing plugin's configuration
    urow,       \* committed user_tokens rows of one bot: telegram_id -> row
    txlog,      \* committed token_transactions rows, in commit order
    tx_created_at, \* the created_at column of the rows of txlog
    db_now,     \* the store's clock
    collector,  \* StatsCollector: running, or where stop() has got to
    \* ---- plugin loader ----
    plugin_files,     \* plugin name -> version of the plugin's file on disk
    loaded_modules,   \* PluginLoader._loaded_modules: name -> version loaded, 0 if none
    registered,       \* PluginRegistry._plugin_classes: name -> version of the class, 0 if none
    loader_last,      \* the last loader call and how it ended
    \* ---- hot reload ----
    plugin_change,    \* one _on_plugin_change call: its input and the reload_bot calls it made
    fs_change,        \* one settled file change and the callback the watcher invoked for it
    sess,       \* store sessions (transactions) in progress
    rowlock,    \* telegram_id -> the session holding an uncommitted write of its row (0: none)
    lres,       \* the most recent TokenManager call that returned or raised
    nops,       \* how many TokenManager calls have been made
    \* ---- statistics collector ----
    message_counts,   \* StatsCollector._message_counts: bot id -> count (0: no key)
    command_counts,   \* StatsCollector._command_counts
    callback_counts,  \* StatsCollector._callback_counts
    error_counts,     \* StatsCollector._error_counts
    new_user_counts,  \* StatsCollector._new_user_counts
    command_usage,    \* StatsCollector._command_usage: bot id -> command -> count
    seen_users,       \* StatsCollector._seen_users: bot id -> set of user ids
    locked,           \* StatsCollector._lock is held (by a flush across its awaits)
    flush,            \* the _flush_to_db call in progress and its store transaction
    bot_statistics,   \* committed bot_statistics rows: bot id -> hour bucket -> row
    hour,             \* the clock, in hours
    flushed,          \* how the most recent _flush_to_db call ended
    recorded,         \* history: the events the record_* calls have recorded, per bot
    nrec,             \* how many record_* calls have been made
    \* ---- rate limit middleware ----
    rl_config,        \* RateLimitConfig of the bot: default_rate (per minute), burst_size
    now,              \* time.time(), in ticks
    buckets,          \* RateLimitMiddleware._buckets: user id -> RateLimitBucket
    last_cleanup,     \* RateLimitMiddleware._last_cleanup
    rl_hist,          \* history: the user's requests and admits at the current tick, the
                      \* time of the last admit, and the admits counted since an
                      \* observation window was opened
    rl_last,          \* how the most recent middleware call ended
    \* ---- bot manager: shutdown ----
    manager_shutdown_event,  \* BotManager._shutdown_event is set
    stop_all,         \* the stop_all that shutdown() awaits: position, snapshot left, joined stop
    polled,           \* the polling tasks whose first polling call has succeeded
    feeding,          \* the ManagedBot whose dispatcher a webhook request is feeding, 0 if none
    \* ---- plugin registry and dispatcher factory ----
    plugin_classes,   \* PluginRegistry._plugin_classes: who is registered, with its dependencies
    plugin_names,     \* the names handed to resolve_dependencies (a bot's enabled plugins)
    resolve_result,   \* what resolve_dependencies returned or raised
    attach_result,    \* what _attach_plugins returned or raised
    \* ---- middleware chain of a dispatcher ----
    mw_input,         \* what the factory was built with, and the update being fed
    mw_trace,         \* the middlewares and the handler the update has entered, in order
    mw_outcome,       \* what the caller of the chain received
    \* ---- webhook receiver ----
    wh_secret,        \* WebhookServer.secret ("" when none is configured)
    wh_bots,          \* what bot_manager.get_bot(id) shows: the bot's state, or absent
    wh_request,       \* the request _webhook_handler is serving
    \* ---- requires_tokens ----
    rt_input,         \* the wrapped handler's call: its arguments and the user's balance
    rt_result,        \* what the wrapper did and returned
    \* ---- cold start ----
    config_files,     \* the bot config files in config_dir, by bot id
    bots_loaded,      \* _load_and_start_bots has run
    \* ---- application and signals ----
    app_start,        \* MultibotApplication.start(), the coroutine asyncio.run drives
    shutdown_event,   \* SignalHandler._shutdown_event is set
    handlers,         \* the _handle_shutdown tasks the signal handlers have created
    stopped,          \* the components whose stop in MultibotApplication.shutdown has completed
    exit_code         \* the process's exit code (NoExitCode while it runs)

botVars == <<bots, objs, tasks, callers, last, ncalls>>
ledgerVars == <<free_tokens, urow, txlog, tx_created_at, sess, rowlock, lres, nops>>

counterVars == <<message_counts, command_counts, callback_counts, error_counts,
                 new_user_counts, command_usage, seen_users>>
statsVars == <<counterVars, locked, flush, bot_statistics, hour, flushed, recorded, nrec>>

rateVars == <<rl_config, now, buckets, last_cleanup, rl_hist, rl_last>>

stopAllVars == <<manager_shutdown_event, stop_all, polled, feeding>>

pluginVars == <<plugin_classes, plugin_names, resolve_result, attach_result>>

mwVars == <<mw_input, mw_trace, mw_outcome>>

webhookVars == <<wh_secret, wh_bots, wh_request>>

tokenGateVars == <<rt_input, rt_result>>

coldStartVars == <<config_files, bots_loaded>>

clockVars == <<db_now>>

collectorVars == <<collector>>

loaderVars == <<plugin_files, loaded_modules, registered, loader_last>>

hotReloadVars == <<plugin_change, fs_change>>

appVars == <<app_start, shutdown_event, handlers, stopped, exit_code>>

vars == <<botVars, stopAllVars, ledgerVars, statsVars, rateVars, appVars, pluginVars, mwVars, webhookVars, tokenGateVars, coldStartVars, clockVars, collectorVars, loaderVars, hotReloadVars>>

\* What a subsystem's steps leave alone.
notBots == <<hotReloadVars, loaderVars, collectorVars, clockVars, coldStartVars, tokenGateVars, webhookVars, mwVars, pluginVars, stopAllVars, ledgerVars, statsVars, rateVars, appVars>>
notLedger == <<hotReloadVars, loaderVars, collectorVars, clockVars, coldStartVars, tokenGateVars, webhookVars, mwVars, pluginVars, botVars, stopAllVars, statsVars, rateVars, appVars>>
notStats == <<hotReloadVars, loaderVars, collectorVars, clockVars, coldStartVars, tokenGateVars, webhookVars, mwVars, pluginVars, botVars, stopAllVars, ledgerVars, rateVars, appVars>>
notRate == <<hotReloadVars, loaderVars, collectorVars, clockVars, coldStartVars, tokenGateVars, webhookVars, mwVars, pluginVars, botVars, stopAllVars, ledgerVars, statsVars, appVars>>
notApp == <<hotReloadVars, loaderVars, collectorVars, clockVars, coldStartVars, tokenGateVars, webhookVars, mwVars, pluginVars, botVars, stopAllVars, ledgerVars, statsVars, rateVars>>
notManager == <<hotReloadVars, loaderVars, collectorVars, clockVars, coldStartVars, tokenGateVars, webhookVars, mwVars, pluginVars, ledgerVars, statsVars, rateVars, appVars>>
notPlugins == <<hotReloadVars, loaderVars, collectorVars, clockVars, coldStartVars, tokenGateVars, webhookVars, mwVars, botVars, stopAllVars, ledgerVars, statsVars, rateVars, appVars>>
notWebhook == <<hotReloadVars, loaderVars, collectorVars, clockVars, coldStartVars, tokenGateVars, botVars, stopAllVars, ledgerVars, statsVars, rateVars, appVars, pluginVars, mwVars>>
notTokenGate == <<hotReloadVars, loaderVars, collectorVars, clockVars, coldStartVars, botVars, stopAllVars, ledgerVars, statsVars, rateVars, appVars, pluginVars, mwVars, webhookVars>>
notColdStart == <<hotReloadVars, loaderVars, collectorVars, clockVars, tokenGateVars, webhookVars, mwVars, pluginVars, stopAllVars, ledgerVars, statsVars, rateVars, appVars>>
notClock == <<hotReloadVars, loaderVars, collectorVars, coldStartVars, tokenGateVars, webhookVars, mwVars, pluginVars, botVars, stopAllVars, ledgerVars, statsVars, rateVars, appVars>>
notCollector == <<hotReloadVars, loaderVars, clockVars, coldStartVars, tokenGateVars, webhookVars, mwVars, pluginVars, botVars, stopAllVars, ledgerVars, rateVars, appVars>>
notLoader == <<hotReloadVars, collectorVars, clockVars, coldStartVars, tokenGateVars, webhookVars, mwVars, pluginVars, botVars, stopAllVars, ledgerVars, statsVars, rateVars, appVars>>
notHotReload == <<loaderVars, collectorVars, clockVars, coldStartVars, tokenGateVars, webhookVars, mwVars, pluginVars, botVars, stopAllVars, ledgerVars, statsVars, rateVars, appVars>>
notMw == <<hotReloadVars, loaderVars, collectorVars, clockVars, coldStartVars, tokenGateVars, webhookVars, botVars, stopAllVars, ledgerVars, statsVars, rateVars, appVars, pluginVars>>

(***************************************************************************)
(* Bot manager                                                             *)
(***************************************************************************)

BotIds == {"a", "b"}
Modes == {"polling", "webhook"}
Procs == {1, 2}
MaxCalls == 4

None == "None"

\* BotConfig, reduced to the fields the manager reads.  The configurations
\* tried: bot a polls (BotConfig.mode's default), bot b is a webhook bot.
ModeOf(id) == IF id = "a" THEN "polling" ELSE "webhook"
\* BotConfig.plugins, as the names of the enabled plugins: bot a's file is
\* tried with and without the help plugin.
PluginLists(id) == IF id = "a" THEN {<<"start">>, <<"start", "help">>} ELSE {<<"start">>}
Configs ==
    UNION {{[id |-> id, mode |-> ModeOf(id), enabled |-> e, plugins |-> pl] :
               e \in BOOLEAN, pl \in PluginLists(id)} : id \in BotIds}

\* dispatcher_factory.create_dispatcher(config): the handler graph, as the
\* plugins whose routers it includes.
CreateDispatcher(cfg) == {cfg.plugins[i] : i \in 1..Len(cfg.plugins)}

\* ManagedBot as create_bot builds it.
ManagedBot(cfg) ==
    [bot_id |-> cfg.id, config |-> cfg, mode |-> cfg.mode, state |-> "stopped",
     started_at |-> None, error_message |-> None, polling_task |-> 0,
     dispatcher |-> CreateDispatcher(cfg), session |-> "open"]

\* The manager's mutable state as one value, so that the calls a handler
\* makes without suspending in between compose inside one step.
M == [bots |-> bots, objs |-> objs, tasks |-> tasks]

NoConfig == [id |-> None, mode |-> None, enabled |-> FALSE, plugins |-> <<>>]

\* No shutdown() has been called.
NoStopAll == [pc |-> "idle", rest |-> <<>>, mb |-> 0, join |-> 0]

IdleCaller == [pc |-> "idle", op |-> None, id |-> None, mb |-> 0, join |-> 0,
               cfg |-> NoConfig]

\* A new call is made, by a coroutine of its own.
Call == ncalls < MaxCalls /\ ncalls' = ncalls + 1

\* The coroutine slot a suspending call takes: the first free one.
Free(p) == callers[p].pc = "idle" /\ \A q \in Procs : q < p => callers[q].pc # "idle"

TaskLive(t) == tasks[t].status # "done"

\* create_bot: no check that config.id is free; the new instance replaces the entry.
CreateBotM(m, cfg) ==
    [m EXCEPT !.objs = Append(m.objs, ManagedBot(cfg)),
              !.bots = [m.bots EXCEPT ![cfg.id] = Len(m.objs) + 1]]

\* _start_polling: create_task(polling_loop()); the task runs at a later step.
StartPollingM(m, o) ==
    [m EXCEPT !.tasks = Append(m.tasks, [obj |-> o, status |-> "pending", cancelled |-> FALSE]),
              !.objs = [m.objs EXCEPT ![o].polling_task = Len(m.tasks) + 1]]

\* A start_bot that refuses nothing.
StartRejectedStates_None == {}

\* The states in which start_bot refuses to start.
StartRejectedStates == {"running"}

\* start_bot, which never suspends: the result and the new manager state.
StartBotM(m, id) ==
    IF m.bots[id] = 0 THEN [exc |-> "BotNotFoundError", m |-> m]
    ELSE LET o == m.bots[id] IN
         IF m.objs[o].state \in StartRejectedStates
         THEN [exc |-> "BotAlreadyRunningError", m |-> m]
         ELSE LET m1 == [m EXCEPT !.objs = [m.objs EXCEPT ![o].state = "starting",
                                                          ![o].error_message = None]]
              IN IF m1.objs[o].mode = "polling"
                 THEN [exc |-> None, m |-> StartPollingM(m1, o)]
                 ELSE [exc |-> None,
                       m |-> [m1 EXCEPT !.objs = [m1.objs EXCEPT ![o].state = "running",
                                                                ![o].started_at = "utcnow"]]]

\* The states in which stop_bot goes ahead.
StoppableStates == {"running", "starting"}

\* stop_bot up to its first suspension: the checks, state = stopping, the cancel.
\* join is the task stop_bot then awaits (0: none, or it is done already).
StopBeginM(m, id) ==
    IF m.bots[id] = 0 THEN [exc |-> "BotNotFoundError", m |-> m, mb |-> 0, join |-> 0]
    ELSE LET o == m.bots[id]
             t == m.objs[o].polling_task
         IN IF m.objs[o].state \notin StoppableStates
            THEN [exc |-> "BotNotRunningError", m |-> m, mb |-> 0, join |-> 0]
            ELSE LET m1 == [m EXCEPT !.objs = [m.objs EXCEPT ![o].state = "stopping"]]
                 IN IF t # 0 /\ m.tasks[t].status # "done"
                    THEN [exc |-> None, mb |-> o, join |-> t,
                          m |-> [m1 EXCEPT !.tasks = [m1.tasks EXCEPT ![t].cancelled = TRUE]]]
                    ELSE [exc |-> None, mb |-> o, join |-> 0, m |-> m1]

\* del self.bots[bot_id]
DelBotM(m, id) ==
    IF m.bots[id] = 0 THEN [exc |-> "KeyError", m |-> m]
    ELSE [exc |-> None, m |-> [m EXCEPT !.bots = [m.bots EXCEPT ![id] = 0]]]

SetM(m) ==
    /\ bots' = m.bots
    /\ objs' = m.objs
    /\ tasks' = m.tasks

Returned(op, id, exc) == last' = [op |-> op, id |-> id, exc |-> exc]

InitBots ==
    /\ bots = [id \in BotIds |-> 0]
    /\ objs = <<>>
    /\ tasks = <<>>
    /\ callers = [p \in Procs |-> IdleCaller]
    /\ last = [op |-> None, id |-> None, exc |-> None]
    /\ ncalls = 0
    /\ manager_shutdown_event = FALSE
    /\ stop_all = NoStopAll
    /\ polled = {}
    /\ feeding = 0

\* ---- the polling task (polling_loop inside _start_polling) ----

SetObj(o, st, started, err) ==
    objs' = [objs EXCEPT ![o].state = st, ![o].started_at = started,
                         ![o].error_message = err]

\* polling_loop's finally clause: a bot still marked running becomes stopped.
FinallyState(st) == IF st = "running" THEN "stopped" ELSE st

\* A task cancelled before its first step never runs its body.
PollingLoopNeverRan(t) ==
    /\ tasks[t].status = "pending" /\ tasks[t].cancelled
    /\ tasks' = [tasks EXCEPT ![t].status = "done"]
    /\ UNCHANGED <<bots, objs, callers, last, ncalls>>

\* First step of the task: state = running, started_at = now, then the task
\* suspends inside dispatcher.start_polling.
PollingLoopStart(t) ==
    LET o == tasks[t].obj IN
    /\ tasks[t].status = "pending" /\ ~tasks[t].cancelled
    /\ SetObj(o, "running", "utcnow", objs[o].error_message)
    /\ tasks' = [tasks EXCEPT ![t].status = "polling"]
    /\ UNCHANGED <<bots, callers, last, ncalls>>

\* First step of the task when the polling call raises before it suspends.
\* (create_bot stores the pair create_dispatcher returns as the dispatcher, so
\* with that factory the attribute lookup raises here.)
PollingLoopStartRaise(t) ==
    LET o == tasks[t].obj IN
    /\ tasks[t].status = "pending" /\ ~tasks[t].cancelled
    /\ SetObj(o, FinallyState("error"), "utcnow", "polling error")
    /\ tasks' = [tasks EXCEPT ![t].status = "done"]
    /\ UNCHANGED <<bots, callers, last, ncalls>>

\* start_polling returns: only the finally clause runs.
PollingLoopReturn(t) ==
    LET o == tasks[t].obj IN
    /\ tasks[t].status = "polling"
    /\ SetObj(o, FinallyState(objs[o].state), objs[o].started_at, objs[o].error_message)
    /\ tasks' = [tasks EXCEPT ![t].status = "done"]
    /\ UNCHANGED <<bots, callers, last, ncalls>>

\* start_polling raises an Exception.
PollingLoopRaise(t) ==
    LET o == tasks[t].obj IN
    /\ tasks[t].status = "polling"
    /\ SetObj(o, FinallyState("error"), objs[o].started_at, "polling error")
    /\ tasks' = [tasks EXCEPT ![t].status = "done"]
    /\ UNCHANGED <<bots, callers, last, ncalls>>

\* CancelledError is delivered at the await: logged, then the finally clause.
PollingLoopCancelled(t) ==
    LET o == tasks[t].obj IN
    /\ tasks[t].status = "polling" /\ tasks[t].cancelled
    /\ SetObj(o, FinallyState(objs[o].state), objs[o].started_at, objs[o].error_message)
    /\ tasks' = [tasks EXCEPT ![t].status = "done"]
    /\ UNCHANGED <<bots, callers, last, ncalls>>

\* ---- the manager's operations ----

CreateBot(cfg) ==
    /\ Call
    /\ SetM(CreateBotM(M, cfg))
    /\ Returned("create_bot", cfg.id, None)
    /\ UNCHANGED callers

StartBot(id) ==
    LET r == StartBotM(M, id) IN
    /\ Call
    /\ SetM(r.m)
    /\ Returned("start_bot", id, r.exc)
    /\ UNCHANGED callers

Suspend(p, pc, op, id, mb, join, cfg) ==
    callers' = [callers EXCEPT ![p] = [pc |-> pc, op |-> op, id |-> id, mb |-> mb,
                                       join |-> join, cfg |-> cfg]]

Resume(p) == callers' = [callers EXCEPT ![p] = IdleCaller]

StopBot(p, id) ==
    LET r == StopBeginM(M, id) IN
    /\ Free(p) /\ Call
    /\ IF r.exc # None
       THEN /\ Returned("stop_bot", id, r.exc)
            /\ UNCHANGED <<bots, objs, tasks, callers>>
       ELSE /\ SetM(r.m)
            /\ Suspend(p, "stop_wait", "stop_bot", id, r.mb, r.join, NoConfig)
            /\ UNCHANGED last

RestartBot(p, id) ==
    /\ Free(p) /\ Call
    /\ IF bots[id] # 0 /\ objs[bots[id]].state \in {"running", "starting"}
       THEN LET r == StopBeginM(M, id) IN
            /\ SetM(r.m)
            /\ Suspend(p, "stop_wait", "restart_bot", id, r.mb, r.join, NoConfig)
       ELSE /\ Suspend(p, "restart_sleep", "restart_bot", id, 0, 0, NoConfig)
            /\ UNCHANGED <<bots, objs, tasks>>
    /\ UNCHANGED last

\* restart_bot after asyncio.sleep(0.5): start_bot.
RestartResume(p) ==
    LET r == StartBotM(M, callers[p].id) IN
    /\ callers[p].pc = "restart_sleep"
    /\ SetM(r.m)
    /\ Returned("restart_bot", callers[p].id, r.exc)
    /\ Resume(p)
    /\ UNCHANGED ncalls

ReloadRestM_OldConfig(m, id, cfg, was_running) ==
    LET d == DelBotM(m, id) IN
    IF d.exc # None THEN d
    ELSE LET m2 == CreateBotM(d.m, m.objs[m.bots[id]].config) IN
         IF was_running /\ cfg.enabled THEN StartBotM(m2, id)
         ELSE [exc |-> None, m |-> m2]

\* reload_bot from "del self.bots[bot_id]" on; nothing in it suspends.
ReloadRestM(m, id, cfg, was_running) ==
    LET d == DelBotM(m, id) IN
    IF d.exc # None THEN d
    ELSE LET m2 == CreateBotM(d.m, cfg) IN
         IF was_running /\ cfg.enabled THEN StartBotM(m2, id)
         ELSE [exc |-> None, m |-> m2]

ReloadBot(p, id, cfg) ==
    /\ Free(p) /\ Call
    /\ IF bots[id] = 0
       THEN /\ Returned("reload_bot", id, "BotNotFoundError")
            /\ UNCHANGED <<bots, objs, tasks, callers>>
       ELSE IF objs[bots[id]].state = "running"
       THEN LET r == StopBeginM(M, id) IN
            /\ SetM(r.m)
            /\ Suspend(p, "stop_wait", "reload_bot", id, r.mb, r.join, cfg)
            /\ UNCHANGED last
       ELSE LET r == ReloadRestM(M, id, cfg, FALSE) IN
            /\ SetM(r.m)
            /\ Returned("reload_bot", id, r.exc)
            /\ UNCHANGED callers

RemoveBot(p, id) ==
    /\ Free(p) /\ Call
    /\ IF bots[id] = 0
       THEN /\ Returned("remove_bot", id, None)
            /\ UNCHANGED <<bots, objs, tasks, callers>>
       ELSE IF objs[bots[id]].state \in {"running", "starting"}
       THEN LET r == StopBeginM(M, id) IN
            /\ SetM(r.m)
            /\ Suspend(p, "stop_wait", "remove_bot", id, r.mb, r.join, NoConfig)
            /\ UNCHANGED last
       ELSE /\ SetM(DelBotM(M, id).m)
            /\ Returned("remove_bot", id, None)
            /\ UNCHANGED callers

Joined_NoWait(p) == callers[p].pc = "stop_wait"

\* stop_bot's awaits are over: the joined task is done and the session closed.
Joined(p) ==
    /\ callers[p].pc = "stop_wait"
    /\ callers[p].join # 0 => tasks[callers[p].join].status = "done"

\* What the caller of stop_bot does once stop_bot has returned.
AfterStopM(m, op, id, cfg) ==
    CASE op = "reload_bot" -> ReloadRestM(m, id, cfg, TRUE)
      [] op = "remove_bot" -> DelBotM(m, id)
      [] OTHER -> [exc |-> None, m |-> m]

\* stop_bot after its awaits: state = stopped, polling_task = None, and on.
StopFinish(p) ==
    LET c == callers[p]
        m1 == [M EXCEPT !.objs = [objs EXCEPT ![c.mb].session = "closed",
                                              ![c.mb].state = "stopped",
                                              ![c.mb].polling_task = 0]]
        r == AfterStopM(m1, c.op, c.id, c.cfg)
    IN /\ Joined(p)
       /\ SetM(r.m)
       /\ UNCHANGED ncalls
       /\ IF c.op = "restart_bot"
          THEN /\ Suspend(p, "restart_sleep", c.op, c.id, 0, 0, NoConfig)
               /\ UNCHANGED last
          ELSE /\ Returned(c.op, c.id, r.exc)
               /\ Resume(p)

\* bot.session.close() raises: state = error, and the exception propagates
\* through restart_bot, reload_bot and remove_bot.
StopFinishRaise(p) ==
    LET c == callers[p] IN
    /\ Joined(p)
    /\ objs' = [objs EXCEPT ![c.mb].state = "error", ![c.mb].error_message = "close error"]
    /\ Returned(c.op, c.id, "Exception")
    /\ Resume(p)
    /\ UNCHANGED <<bots, tasks, ncalls>>

NextBots ==
    \/ \E cfg \in Configs : CreateBot(cfg) /\ UNCHANGED notBots
    \/ \E id \in BotIds : StartBot(id) /\ UNCHANGED notBots
    \/ \E p \in Procs, id \in BotIds : StopBot(p, id) /\ UNCHANGED notBots
    \/ \E p \in Procs, id \in BotIds : RestartBot(p, id) /\ UNCHANGED notBots
    \/ \E p \in Procs : RestartResume(p) /\ UNCHANGED notBots
    \/ \E p \in Procs, cfg \in Configs : ReloadBot(p, cfg.id, cfg) /\ UNCHANGED notBots
    \/ \E p \in Procs, id \in BotIds : RemoveBot(p, id) /\ UNCHANGED notBots
    \/ \E p \in Procs : StopFinish(p) /\ UNCHANGED notBots
    \/ \E p \in Procs : StopFinishRaise(p) /\ UNCHANGED notBots
    \/ \E t \in 1..Len(tasks) : PollingLoopNeverRan(t) /\ UNCHANGED notBots
    \/ \E t \in 1..Len(tasks) : PollingLoopStart(t) /\ UNCHANGED notBots
    \/ \E t \in 1..Len(tasks) : PollingLoopStartRaise(t) /\ UNCHANGED notBots
    \/ \E t \in 1..Len(tasks) : PollingLoopReturn(t) /\ UNCHANGED notBots
    \/ \E t \in 1..Len(tasks) : PollingLoopRaise(t) /\ UNCHANGED notBots
    \/ \E t \in 1..Len(tasks) : PollingLoopCancelled(t) /\ UNCHANGED notBots


\* ---- inside dispatcher.start_polling ----

\* The first polling call of a task suspended in start_polling succeeds.
FirstPollSucceeds(t) ==
    /\ tasks[t].status = "polling"
    /\ t \notin polled
    /\ polled' = polled \cup {t}
    /\ UNCHANGED <<botVars, manager_shutdown_event, stop_all, feeding>>

NextPolling ==
    \/ NextBots
    \/ \E t \in 1..Len(tasks) : FirstPollSucceeds(t) /\ UNCHANGED notManager

\* ---- WebhookServer._webhook_handler against the manager's registry ----

\* A request for bot_id passes the handler's checks (bot known, state running,
\* secret verified, body parsed) and suspends in dispatcher.feed_update.
WebhookFeedBegin(id) ==
    /\ feeding = 0
    /\ bots[id] # 0
    /\ objs[bots[id]].state = "running"
    /\ feeding' = bots[id]
    /\ UNCHANGED <<botVars, manager_shutdown_event, stop_all, polled>>

\* feed_update returns or raises: the handler answers 200 or 500.
WebhookFeedEnd ==
    /\ feeding # 0
    /\ feeding' = 0
    /\ UNCHANGED <<botVars, manager_shutdown_event, stop_all, polled>>

\* reload_bot from "del self.bots[bot_id]" on when create_bot raises: the
\* dispatcher factory is unset, Bot() rejects the token, or create_dispatcher
\* meets a plugin that is not registered.  The entry is gone by then.
ReloadRestRaisesM(m, id) ==
    LET d == DelBotM(m, id) IN
    IF d.exc # None THEN d ELSE [exc |-> "CreateBotError", m |-> d.m]

\* reload_bot of a registered bot that is not running, create_bot raising.
ReloadBotCreateRaises(p, id, cfg) ==
    LET r == ReloadRestRaisesM(M, id) IN
    /\ Free(p) /\ Call
    /\ bots[id] # 0 /\ objs[bots[id]].state # "running"
    /\ SetM(r.m)
    /\ Returned("reload_bot", id, r.exc)
    /\ UNCHANGED callers

\* reload_bot after its stop_bot has returned, create_bot raising.
StopFinishCreateRaises(p) ==
    LET c == callers[p]
        m1 == [M EXCEPT !.objs = [objs EXCEPT ![c.mb].session = "closed",
                                              ![c.mb].state = "stopped",
                                              ![c.mb].polling_task = 0]]
        r == ReloadRestRaisesM(m1, c.id)
    IN /\ Joined(p)
       /\ c.op = "reload_bot"
       /\ SetM(r.m)
       /\ Returned(c.op, c.id, r.exc)
       /\ Resume(p)
       /\ UNCHANGED ncalls

NextReload ==
    \/ NextBots
    \/ \E p \in Procs, cfg \in Configs : ReloadBotCreateRaises(p, cfg.id, cfg) /\ UNCHANGED notBots
    \/ \E p \in Procs : StopFinishCreateRaises(p) /\ UNCHANGED notBots

NextDrive ==
    \/ NextBots
    \/ \E id \in BotIds : WebhookFeedBegin(id) /\ UNCHANGED notManager
    \/ WebhookFeedEnd /\ UNCHANGED notManager

\* ---- shutdown: stop_all over a snapshot of the registry ----

RECURSIVE Items(_, _)
\* list(self.bots.items()): the registered ids of ids with their instances, in
\* insertion order (a later create_bot builds a later instance).
Items(m, ids) ==
    IF ids = {} THEN <<>>
    ELSE LET id == CHOOSE i \in ids : \A j \in ids : m.bots[i] <= m.bots[j]
         IN <<[bot_id |-> id, mb |-> m.bots[id]]>> \o Items(m, ids \ {id})

RECURSIVE StopAllM(_, _)
\* stop_all's loop from the entries rest on, up to the next suspension: an
\* entry whose instance is not running or starting is passed over, an
\* exception of stop_bot is logged, and a stop_bot that goes ahead suspends.
StopAllM(m, rest) ==
    IF rest = <<>> THEN [m |-> m, sa |-> [pc |-> "returned", rest |-> <<>>, mb |-> 0, join |-> 0]]
    ELSE LET e == Head(rest) IN
         IF m.objs[e.mb].state \notin {"running", "starting"}
         THEN StopAllM(m, Tail(rest))
         ELSE LET r == StopBeginM(m, e.bot_id) IN
              IF r.exc # None THEN StopAllM(m, Tail(rest))
              ELSE [m |-> r.m,
                    sa |-> [pc |-> "stop_wait", rest |-> Tail(rest), mb |-> r.mb, join |-> r.join]]

\* shutdown(): the event is set, then stop_all up to its first suspension.
Shutdown ==
    LET r == StopAllM(M, Items(M, {id \in BotIds : bots[id] # 0})) IN
    /\ stop_all.pc = "idle"
    /\ Call
    /\ manager_shutdown_event' = TRUE
    /\ SetM(r.m)
    /\ stop_all' = r.sa
    /\ UNCHANGED <<callers, last, polled, feeding>>

StopAllJoined ==
    /\ stop_all.pc = "stop_wait"
    /\ stop_all.join # 0 => tasks[stop_all.join].status = "done"

\* The stop_bot inside stop_all after its awaits, and the loop up to the next
\* suspension or to shutdown's return.
StopAllResume ==
    LET m1 == [M EXCEPT !.objs = [objs EXCEPT ![stop_all.mb].session = "closed",
                                              ![stop_all.mb].state = "stopped",
                                              ![stop_all.mb].polling_task = 0]]
        r == StopAllM(m1, stop_all.rest)
    IN /\ StopAllJoined
       /\ SetM(r.m)
       /\ stop_all' = r.sa
       /\ UNCHANGED <<callers, last, ncalls, manager_shutdown_event, polled, feeding>>

\* bot.session.close() raises inside stop_all: state = error, stop_all logs
\* the exception and goes on with the next entry.
StopAllResumeRaise ==
    LET m1 == [M EXCEPT !.objs = [objs EXCEPT ![stop_all.mb].state = "error",
                                              ![stop_all.mb].error_message = "close error"]]
        r == StopAllM(m1, stop_all.rest)
    IN /\ StopAllJoined
       /\ SetM(r.m)
       /\ stop_all' = r.sa
       /\ UNCHANGED <<callers, last, ncalls, manager_shutdown_event, polled, feeding>>

NextManager ==
    \/ NextBots
    \/ Shutdown /\ UNCHANGED notManager
    \/ StopAllResume /\ UNCHANGED notManager
    \/ StopAllResumeRaise /\ UNCHANGED notManager

(***************************************************************************)
(* Token ledger: TokenManager over TokenRepository / TransactionRepository *)
(* on a store with READ COMMITTED transactions and row locks.              *)
(***************************************************************************)

Users == {7, 8}
Sessions == {1, 2}
MaxOps == 3
MaxFree == 2
MaxCost == 2
MaxGrant == 1
PackageTokens == 2

Costs == 1..MaxCost
GrantAmounts == 1..MaxGrant
\* TokenManager.packages: package id -> tokens
Packages == [small |-> PackageTokens]
PackageIds == {"small", "unknown"}
PaymentIds == {"charge1", "charge2"}

NoRow == [exists |-> FALSE, balance |-> 0, total_purchased |-> 0, total_consumed |-> 0]
\* UserToken(telegram_id, bot_id, balance = free_tokens); the totals default to 0.
NewRow(free) == [exists |-> TRUE, balance |-> free, total_purchased |-> 0, total_consumed |-> 0]

IdleSession == [pc |-> "idle", op |-> None, user |-> 0, amount |-> 0, ref |-> None, began |-> 0,
                dirty |-> FALSE, wrow |-> NoRow, wlog |-> <<>>, ret |-> 0, is_new |-> FALSE]

NoResult == [op |-> None, user |-> 0, exc |-> None, value |-> 0, is_new |-> FALSE,
             required |-> 0, available |-> 0]

\* TokenTransaction as log_transaction builds it.
Transaction(u, type, amount, balance_after, reference_type, reference_id) ==
    [telegram_id |-> u, transaction_type |-> type, amount |-> amount,
     balance_after |-> balance_after, reference_type |-> reference_type,
     reference_id |-> reference_id]

\* created_at defaults to func.now(), rendered into the INSERT: on PostgreSQL
\* now() is the start time of the current transaction, which begins with the
\* session's first statement (began).

\* The row version a session's statements see and update: its own uncommitted
\* write if it has one, else the committed row.
Visible(s, u) == IF sess[s].dirty THEN sess[s].wrow ELSE urow[u]

\* SELECT balance ... ; get_balance returns None without a row, TokenManager "or 0".
GetBalance(u) == IF urow[u].exists THEN urow[u].balance ELSE 0

ConsumeMatches_AnyBalance(row, amount) == row.exists

\* consume_tokens' WHERE clause on the balance.
ConsumeMatches(row, amount) == row.exists /\ row.balance >= amount

ConsumedRow_BalanceOnly(row, amount) ==
    [row EXCEPT !.balance = row.balance - amount]

\* consume_tokens' SET clause.
ConsumedRow(row, amount) ==
    [row EXCEPT !.balance = row.balance - amount,
                !.total_consumed = row.total_consumed + amount]

\* credit_tokens' SET clause.
CreditedRow(row, amount, is_purchase) ==
    [row EXCEPT !.balance = row.balance + amount,
                !.total_purchased = IF is_purchase THEN row.total_purchased + amount
                                    ELSE row.total_purchased]

OpCall == nops < MaxOps /\ nops' = nops + 1
FreeSession(s) == sess[s].pc = "idle" /\ \A q \in Sessions : q < s => sess[q].pc # "idle"

Raised(op, u, exc) ==
    lres' = [NoResult EXCEPT !.op = op, !.user = u, !.exc = exc]

Open(s, pc, op, u, amount, ref) ==
    sess' = [sess EXCEPT ![s] = [IdleSession EXCEPT !.pc = pc, !.op = op, !.user = u,
                                                   !.amount = amount, !.ref = ref,
                                                   !.began = db_now]]

Close(s) ==
    /\ sess' = [sess EXCEPT ![s] = IdleSession]
    /\ rowlock' = [u \in Users |-> IF rowlock[u] = s THEN 0 ELSE rowlock[u]]

InitLedger ==
    /\ free_tokens \in {0, MaxFree}
    /\ urow = [u \in Users |-> NoRow]
    /\ txlog = <<>>
    /\ tx_created_at = <<>>
    /\ db_now = 0
    /\ sess = [s \in Sessions |-> IdleSession]
    /\ rowlock = [u \in Users |-> 0]
    /\ lres = NoResult
    /\ nops = 0

\* ensure_initialized up to get_or_create_balance's SELECT.  With a row it
\* returns (balance, False); its transaction wrote nothing.
EnsureInitialized(s, u) ==
    /\ FreeSession(s) /\ OpCall
    /\ IF urow[u].exists
       THEN /\ lres' = [NoResult EXCEPT !.op = "ensure_initialized", !.user = u,
                                        !.value = urow[u].balance]
            /\ UNCHANGED sess
       ELSE /\ Open(s, "insert", "ensure_initialized", u, free_tokens, "initial_bonus")
            /\ UNCHANGED lres
    /\ UNCHANGED <<free_tokens, urow, txlog, tx_created_at, rowlock>>

\* purchase: the package lookup, then get_or_create_balance's SELECT.
Purchase(s, u, package_id, payment_id) ==
    /\ FreeSession(s) /\ OpCall
    /\ IF package_id \notin DOMAIN Packages
       THEN /\ Raised("purchase", u, "ValueError")
            /\ UNCHANGED sess
       ELSE /\ Open(s, IF urow[u].exists THEN "credit" ELSE "insert", "purchase", u,
                    Packages[package_id], payment_id)
            /\ UNCHANGED lres
    /\ UNCHANGED <<free_tokens, urow, txlog, tx_created_at, rowlock>>

\* grant up to get_or_create_balance's SELECT.
Grant(s, u, amount, reason) ==
    /\ FreeSession(s) /\ OpCall
    /\ Open(s, IF urow[u].exists THEN "credit" ELSE "insert", "grant", u, amount, reason)
    /\ UNCHANGED <<free_tokens, urow, txlog, tx_created_at, rowlock, lres>>

KeyTaken_NoIndex(u) == FALSE

\* The unique index ix_user_tokens_telegram_bot: a committed row has the key.
KeyTaken(u) == urow[u].exists

\* get_or_create_balance's INSERT (session.add + flush).  It waits for an
\* uncommitted insert of the same key and fails on the unique index if the
\* row has been committed since the SELECT.  ensure_initialized then logs the
\* welcome grant when free_tokens > 0.
InsertBalance(s) ==
    LET c == sess[s]
        u == c.user
        free == IF c.op = "ensure_initialized" THEN free_tokens ELSE 0
        welcome == IF c.op = "ensure_initialized" /\ free_tokens > 0
                   THEN <<Transaction(u, "grant", free_tokens, free_tokens,
                                      "welcome", "initial_bonus")>>
                   ELSE <<>>
    IN /\ c.pc = "insert"
       /\ rowlock[u] = 0
       /\ IF KeyTaken(u)
          THEN /\ Raised(c.op, u, "IntegrityError")
               /\ Close(s)
          ELSE /\ rowlock' = [rowlock EXCEPT ![u] = s]
               /\ sess' = [sess EXCEPT ![s] =
                     [c EXCEPT !.pc = IF c.op = "ensure_initialized" THEN "commit" ELSE "credit",
                               !.dirty = TRUE, !.wrow = NewRow(free), !.wlog = welcome,
                               !.ret = free, !.is_new = TRUE]]
               /\ UNCHANGED lres
       /\ UNCHANGED <<free_tokens, urow, txlog, tx_created_at, nops>>

\* credit_tokens' UPDATE ... RETURNING balance, then log_transaction.  The
\* UPDATE waits for the row lock and applies to the latest row version.
Credit(s) ==
    LET c == sess[s]
        u == c.user
        row == CreditedRow(Visible(s, u), c.amount, c.op = "purchase")
        tx == IF c.op = "purchase"
              THEN Transaction(u, "purchase", c.amount, row.balance, "payment", c.ref)
              ELSE Transaction(u, "grant", c.amount, row.balance, "admin", c.ref)
    IN /\ c.pc = "credit"
       /\ rowlock[u] \in {0, s}
       /\ rowlock' = [rowlock EXCEPT ![u] = s]
       /\ sess' = [sess EXCEPT ![s] = [c EXCEPT !.pc = "commit", !.dirty = TRUE,
                                                !.wrow = row, !.wlog = Append(c.wlog, tx),
                                                !.ret = row.balance]]
       /\ UNCHANGED <<free_tokens, urow, txlog, tx_created_at, lres, nops>>

\* consume up to consume_tokens' conditional UPDATE ... RETURNING balance and,
\* when a row came back, log_transaction.  A row whose committed version
\* matches but is locked makes the UPDATE wait and re-check.
Consume(s, u, cost, action) ==
    /\ FreeSession(s) /\ OpCall
    /\ ~(ConsumeMatches(urow[u], cost) /\ rowlock[u] # 0)
    /\ IF ConsumeMatches(urow[u], cost)
       THEN LET row == ConsumedRow(urow[u], cost) IN
            /\ rowlock' = [rowlock EXCEPT ![u] = s]
            /\ sess' = [sess EXCEPT ![s] =
                  [IdleSession EXCEPT !.pc = "commit", !.op = "consume", !.user = u, !.began = db_now,
                                      !.amount = cost, !.ref = action, !.dirty = TRUE,
                                      !.wrow = row, !.ret = row.balance,
                                      !.wlog = <<Transaction(u, "consume", -cost, row.balance,
                                                             "action", action)>>]]
       ELSE /\ Open(s, "get_balance", "consume", u, cost, action)
            /\ UNCHANGED rowlock
    /\ UNCHANGED <<free_tokens, urow, txlog, tx_created_at, lres>>

\* consume after an UPDATE that returned no row: get_balance, then
\* InsufficientTokensError; the session rolls back.
ConsumeRaise(s) ==
    LET c == sess[s] IN
    /\ c.pc = "get_balance"
    /\ lres' = [NoResult EXCEPT !.op = "consume", !.user = c.user,
                                !.exc = "InsufficientTokensError",
                                !.required = c.amount, !.available = GetBalance(c.user)]
    /\ Close(s)
    /\ UNCHANGED <<free_tokens, urow, txlog, tx_created_at, nops>>

\* DatabaseManager.session: commit on clean exit; the call returns.
Commit(s) ==
    LET c == sess[s] IN
    /\ c.pc = "commit"
    /\ urow' = IF c.dirty THEN [urow EXCEPT ![c.user] = c.wrow] ELSE urow
    /\ txlog' = txlog \o c.wlog
    /\ tx_created_at' = tx_created_at \o [i \in 1..Len(c.wlog) |-> c.began]
    /\ lres' = [NoResult EXCEPT !.op = c.op, !.user = c.user, !.value = c.ret,
                                !.is_new = c.is_new]
    /\ Close(s)
    /\ UNCHANGED <<free_tokens, nops>>

Rollback_KeepsLog(s) ==
    /\ sess[s].pc # "idle"
    /\ Raised(sess[s].op, sess[s].user, "DBAPIError")
    /\ txlog' = txlog \o sess[s].wlog
    /\ tx_created_at' = tx_created_at \o [i \in 1..Len(sess[s].wlog) |-> sess[s].began]
    /\ Close(s)
    /\ UNCHANGED <<free_tokens, urow, nops>>

\* A statement or the commit fails (the store is unavailable): rollback, raise.
Rollback(s) ==
    /\ sess[s].pc # "idle"
    /\ Raised(sess[s].op, sess[s].user, "DBAPIError")
    /\ Close(s)
    /\ UNCHANGED <<free_tokens, urow, txlog, tx_created_at, nops>>

MaxClock == 2

\* Time passes on the store's clock.
ClockTick ==
    /\ db_now < MaxClock
    /\ db_now' = db_now + 1

NextLedger ==
    \/ \E s \in Sessions, u \in Users : EnsureInitialized(s, u) /\ UNCHANGED notLedger
    \/ \E s \in Sessions, u \in Users, c \in Costs : Consume(s, u, c, "generate") /\ UNCHANGED notLedger
    \/ \E s \in Sessions, u \in Users, k \in PackageIds, pid \in PaymentIds :
          Purchase(s, u, k, pid) /\ UNCHANGED notLedger
    \/ \E s \in Sessions, u \in Users, a \in GrantAmounts : Grant(s, u, a, "promo") /\ UNCHANGED notLedger
    \/ \E s \in Sessions : InsertBalance(s) /\ UNCHANGED notLedger
    \/ \E s \in Sessions : Credit(s) /\ UNCHANGED notLedger
    \/ \E s \in Sessions : ConsumeRaise(s) /\ UNCHANGED notLedger
    \/ \E s \in Sessions : Commit(s) /\ UNCHANGED notLedger
    \/ \E s \in Sessions : Rollback(s) /\ UNCHANGED notLedger


NextLedgerClock ==
    \/ NextLedger
    \/ ClockTick /\ UNCHANGED notClock

\* The ledger at rest, for the specifications of the other subsystems.
LedgerIdle ==
    /\ free_tokens = 0
    /\ urow = [u \in Users |-> NoRow]
    /\ txlog = <<>>
    /\ tx_created_at = <<>>
    /\ db_now = 0
    /\ sess = [s \in Sessions |-> IdleSession]
    /\ rowlock = [u \in Users |-> 0]
    /\ lres = NoResult
    /\ nops = 0


(***************************************************************************)
(* Statistics collector: StatsCollector over StatsRepository               *)
(***************************************************************************)

Commands == {"start", "help"}
MaxEvents == 2
MaxHour == 1
Hours == 0..MaxHour

NoCounts == [b \in BotIds |-> 0]
NoUsage == [c \in Commands |-> 0]

\* Counter.keys(): a Counter holds a key once it has been incremented.
Keys(counter) == {b \in BotIds : counter[b] > 0}

NoStats == [exists |-> FALSE, message_count |-> 0, command_count |-> 0,
            callback_count |-> 0, error_count |-> 0, unique_users |-> 0,
            new_users |-> 0, command_usage |-> NoUsage]

IdleFlush == [pc |-> "idle", bots |-> {}, todo |-> {}, hour_bucket |-> 0,
              rows |-> [b \in BotIds |-> [h \in Hours |-> NoStats]]]

NoEvents == [message |-> 0, command |-> 0, callback |-> 0, error |-> 0, new_user |-> 0,
             usage |-> NoUsage]

Greatest(x, y) == IF x >= y THEN x ELSE y

\* jsonb || jsonb on flat objects: the right operand's keys win.
JsonbConcat(l, r) == [c \in Commands |-> IF r[c] # 0 THEN r[c] ELSE l[c]]

\* INSERT ... ON CONFLICT (bot_id, hour_bucket) DO UPDATE.  The conflict
\* branch sets command_usage to coalesce(existing, '{}') + coalesce('{}', '{}').
UpsertHourlyStats(row, message_count, command_count, callback_count, error_count, unique_users, new_users, usage) ==
    IF ~row.exists
    THEN [exists |-> TRUE, message_count |-> message_count,
          command_count |-> command_count, callback_count |-> callback_count,
          error_count |-> error_count, unique_users |-> unique_users,
          new_users |-> new_users, command_usage |-> usage]
    ELSE [exists |-> TRUE, message_count |-> row.message_count + message_count,
          command_count |-> row.command_count + command_count,
          callback_count |-> row.callback_count + callback_count,
          error_count |-> row.error_count + error_count,
          unique_users |-> Greatest(row.unique_users, unique_users),
          new_users |-> row.new_users + new_users,
          command_usage |-> JsonbConcat(row.command_usage, NoUsage)]

CanRecord_NoLock == TRUE

\* async with self._lock in record_*: the call proceeds once no flush holds the lock.
CanRecord == ~locked

Record(b, kind, command) ==
    /\ CanRecord
    /\ nrec < MaxEvents
    /\ nrec' = nrec + 1
    /\ recorded' = [recorded EXCEPT
          ![b][kind] = @ + 1,
          ![b].usage = IF command \in Commands THEN [@ EXCEPT ![command] = @ + 1] ELSE @]

Seen(b, u) == seen_users' = [seen_users EXCEPT ![b] = @ \cup {u}]

InitStats ==
    /\ message_counts = NoCounts
    /\ command_counts = NoCounts
    /\ callback_counts = NoCounts
    /\ error_counts = NoCounts
    /\ new_user_counts = NoCounts
    /\ command_usage = [b \in BotIds |-> NoUsage]
    /\ seen_users = [b \in BotIds |-> {}]
    /\ locked = FALSE
    /\ flush = IdleFlush
    /\ bot_statistics = [b \in BotIds |-> [h \in Hours |-> NoStats]]
    /\ hour = 0
    /\ flushed = None
    /\ recorded = [b \in BotIds |-> NoEvents]
    /\ nrec = 0
    /\ collector = "running"

record_message(b, u) ==
    /\ Record(b, "message", None)
    /\ message_counts' = [message_counts EXCEPT ![b] = @ + 1]
    /\ Seen(b, u)
    /\ UNCHANGED <<command_counts, callback_counts, error_counts, new_user_counts,
                   command_usage, locked, flush, bot_statistics, hour, flushed>>

record_command(b, command, u) ==
    /\ Record(b, "command", command)
    /\ command_counts' = [command_counts EXCEPT ![b] = @ + 1]
    /\ command_usage' = [command_usage EXCEPT ![b][command] = @ + 1]
    /\ Seen(b, u)
    /\ UNCHANGED <<message_counts, callback_counts, error_counts, new_user_counts,
                   locked, flush, bot_statistics, hour, flushed>>

record_callback(b, u) ==
    /\ Record(b, "callback", None)
    /\ callback_counts' = [callback_counts EXCEPT ![b] = @ + 1]
    /\ Seen(b, u)
    /\ UNCHANGED <<message_counts, command_counts, error_counts, new_user_counts,
                   command_usage, locked, flush, bot_statistics, hour, flushed>>

record_error(b) ==
    /\ Record(b, "error", None)
    /\ error_counts' = [error_counts EXCEPT ![b] = @ + 1]
    /\ UNCHANGED <<message_counts, command_counts, callback_counts, new_user_counts,
                   command_usage, seen_users, locked, flush, bot_statistics, hour, flushed>>

record_new_user(b) ==
    /\ Record(b, "new_user", None)
    /\ new_user_counts' = [new_user_counts EXCEPT ![b] = @ + 1]
    /\ UNCHANGED <<message_counts, command_counts, callback_counts, error_counts,
                   command_usage, seen_users, locked, flush, bot_statistics, hour, flushed>>

\* _flush_to_db up to the first upsert: take the lock, return at once when the
\* four event counters are empty, else fix the hour bucket and the bot ids and
\* open the store session.
FlushBegin ==
    LET all_bot_ids == Keys(message_counts) \cup Keys(command_counts)
                         \cup Keys(callback_counts) \cup Keys(error_counts)
    IN /\ ~locked
       /\ flush.pc = "idle"
       /\ IF all_bot_ids = {}
          THEN /\ flushed' = "nothing"
               /\ UNCHANGED <<locked, flush>>
          ELSE /\ locked' = TRUE
               /\ flush' = [pc |-> "upsert", bots |-> all_bot_ids, todo |-> all_bot_ids,
                            hour_bucket |-> hour, rows |-> bot_statistics]
               /\ UNCHANGED flushed
       /\ UNCHANGED <<counterVars, bot_statistics, hour, recorded, nrec>>

\* One iteration of the loop over all_bot_ids: upsert_hourly_stats with the
\* counters as they are now.
FlushUpsert(b) ==
    LET h == flush.hour_bucket
        row == UpsertHourlyStats(flush.rows[b][h], message_counts[b], command_counts[b],
                                 callback_counts[b], error_counts[b],
                                 Cardinality(seen_users[b]), new_user_counts[b],
                                 command_usage[b])
    IN /\ flush.pc = "upsert"
       /\ b \in flush.todo
       /\ flush' = [flush EXCEPT !.todo = @ \ {b}, !.rows[b][h] = row]
       /\ UNCHANGED <<counterVars, locked, bot_statistics, hour, flushed, recorded, nrec>>

\* session.commit(), then every counter is cleared and the lock released.
FlushCommit ==
    /\ flush.pc = "upsert"
    /\ flush.todo = {}
    /\ bot_statistics' = flush.rows
    /\ message_counts' = NoCounts
    /\ command_counts' = NoCounts
    /\ callback_counts' = NoCounts
    /\ error_counts' = NoCounts
    /\ new_user_counts' = NoCounts
    /\ command_usage' = [b \in BotIds |-> NoUsage]
    /\ seen_users' = [b \in BotIds |-> {}]
    /\ locked' = FALSE
    /\ flush' = IdleFlush
    /\ flushed' = "ok"
    /\ UNCHANGED <<hour, recorded, nrec>>

\* An upsert or the commit raises: the session rolls back, the error is
\* logged and the call returns without clearing.
FlushFail ==
    /\ flush.pc = "upsert"
    /\ locked' = FALSE
    /\ flush' = IdleFlush
    /\ flushed' = "failed"
    /\ UNCHANGED <<counterVars, bot_statistics, hour, recorded, nrec>>

\* datetime.utcnow() passes into the next hour.
Tick ==
    /\ hour < MaxHour
    /\ hour' = hour + 1
    /\ UNCHANGED <<counterVars, locked, flush, bot_statistics, flushed, recorded, nrec>>

NextStats ==
    \/ \E b \in BotIds, u \in Users : record_message(b, u) /\ UNCHANGED notStats
    \/ \E b \in BotIds, c \in Commands, u \in Users : record_command(b, c, u) /\ UNCHANGED notStats
    \/ \E b \in BotIds, u \in Users : record_callback(b, u) /\ UNCHANGED notStats
    \/ \E b \in BotIds : record_error(b) /\ UNCHANGED notStats
    \/ \E b \in BotIds : record_new_user(b) /\ UNCHANGED notStats
    \/ FlushBegin /\ UNCHANGED notStats
    \/ \E b \in BotIds : FlushUpsert(b) /\ UNCHANGED notStats
    \/ FlushCommit /\ UNCHANGED notStats
    \/ FlushFail /\ UNCHANGED notStats
    \/ Tick /\ UNCHANGED notStats

\* ---- StatsCollector.stop ----

\* stop() while the flusher sleeps: the cancelled task ends at once.
StopCancelsSleep ==
    /\ collector = "running"
    /\ flush.pc = "idle"
    /\ collector' = "final"
    /\ UNCHANGED statsVars

\* stop() while the flusher is inside _flush_to_db: CancelledError is raised
\* at its await, passes the except Exception clauses, releases the lock and
\* ends the task in _periodic_flush; nothing is cleared.  The store has
\* either not committed (committed = FALSE: the session is rolled back on
\* close) or has committed already when the task is resumed.
StopCancelsFlush(committed) ==
    /\ collector = "running"
    /\ flush.pc = "upsert"
    /\ committed => flush.todo = {}
    /\ bot_statistics' = IF committed THEN flush.rows ELSE bot_statistics
    /\ locked' = FALSE
    /\ flush' = IdleFlush
    /\ flushed' = "cancelled"
    /\ collector' = "final"
    /\ UNCHANGED <<counterVars, hour, recorded, nrec>>

\* The final flush of stop() begins; with nothing to flush stop() returns.
FinalFlushBegin ==
    /\ collector = "final"
    /\ FlushBegin
    /\ collector' = IF locked' THEN "flushing" ELSE "stopped"

\* The collector's steps with stop() in play: events are recorded and the
\* flusher runs until stop() is called; the final flush meets a working store.
NextCollector ==
    \/ \E b \in BotIds, u \in Users : collector = "running" /\ record_message(b, u) /\ UNCHANGED <<collector, notCollector>>
    \/ \E b \in BotIds, c \in Commands, u \in Users : collector = "running" /\ record_command(b, c, u) /\ UNCHANGED <<collector, notCollector>>
    \/ \E b \in BotIds, u \in Users : collector = "running" /\ record_callback(b, u) /\ UNCHANGED <<collector, notCollector>>
    \/ \E b \in BotIds : collector = "running" /\ record_error(b) /\ UNCHANGED <<collector, notCollector>>
    \/ \E b \in BotIds : collector = "running" /\ record_new_user(b) /\ UNCHANGED <<collector, notCollector>>
    \/ collector = "running" /\ FlushBegin /\ UNCHANGED <<collector, notCollector>>
    \/ \E b \in BotIds : FlushUpsert(b) /\ UNCHANGED <<collector, notCollector>>
    \/ FlushCommit /\ collector' = (IF collector = "flushing" THEN "stopped" ELSE collector) /\ UNCHANGED notCollector
    \/ collector = "running" /\ FlushFail /\ UNCHANGED <<collector, notCollector>>
    \/ collector = "running" /\ Tick /\ UNCHANGED <<collector, notCollector>>
    \/ StopCancelsSleep /\ UNCHANGED notCollector
    \/ \E committed \in BOOLEAN : StopCancelsFlush(committed) /\ UNCHANGED notCollector
    \/ FinalFlushBegin /\ UNCHANGED notCollector

\* The collector at rest, for the specifications of the other subsystems.
StatsIdle == InitStats

(***************************************************************************)
(* Rate limit middleware: RateLimitMiddleware over RateLimitBucket.        *)
(* Time advances in ticks of 60 / TicksPerMinute seconds; bucket tokens    *)
(* are kept in units of 1 / TicksPerMinute token, so that the refill       *)
(* elapsed * rate is exact: one tick refills default_rate units and a      *)
(* request costs TicksPerMinute units.                                     *)
(***************************************************************************)

TicksPerMinute == 2
MaxTime == 11
MaxSame == 7

\* RateLimitMiddleware._cleanup_interval: 300 seconds.
cleanup_interval == 5 * TicksPerMinute

\* RateLimitConfig values tried: default_rate >= 1 per minute, burst_size >= 1.
RateConfigs ==
    {[default_rate |-> 1, burst_size |-> 1],
     [default_rate |-> 1, burst_size |-> 2],
     [default_rate |-> 1, burst_size |-> 6]}

\* One request costs one token.
OneToken == TicksPerMinute
\* RateLimitMiddleware.burst, in units.
Burst == rl_config.burst_size * TicksPerMinute

NoBucket == [present |-> FALSE, tokens |-> 0, last_update |-> 0]

Least(x, y) == IF x <= y THEN x ELSE y

Refilled_Uncapped(bucket) ==
    bucket.tokens + (now - bucket.last_update) * rl_config.default_rate

\* RateLimitBucket.consume's refill: min(burst, tokens + elapsed * rate).
Refilled(bucket) ==
    Least(Burst, bucket.tokens + (now - bucket.last_update) * rl_config.default_rate)

\* _cleanup_old_buckets: nothing before cleanup_interval has passed since the
\* last sweep; then every bucket with last_update < now - cleanup_interval goes.
CleanedUp(bs) ==
    IF now - last_cleanup < cleanup_interval THEN bs
    ELSE [u \in DOMAIN bs |->
            IF bs[u].present /\ bs[u].last_update < now - cleanup_interval
            THEN NoBucket ELSE bs[u]]

CleanupStamp == IF now - last_cleanup < cleanup_interval THEN last_cleanup ELSE now

\* _get_bucket: a missing bucket is created full, stamped now.
GetBucket(bs, u) ==
    IF bs[u].present THEN bs[u]
    ELSE [present |-> TRUE, tokens |-> Burst, last_update |-> now]

RateUser == 7

\* "No such time yet" in the history.
NoTime == 0 - 1

NoHistory == [reqs_now |-> 0, admitted_now |-> 0, last_admit |-> NoTime,
              created |-> NoTime, win_start |-> NoTime, win_count |-> 0]

InitRate ==
    /\ rl_config \in RateConfigs
    /\ now = 0
    /\ buckets = [u \in {RateUser} |-> NoBucket]
    /\ last_cleanup = 0
    /\ rl_hist = NoHistory
    /\ rl_last = None

\* RateLimitMiddleware.__call__ for an event of the user: sweep, get the
\* bucket, consume; the handler runs iff consume returned True.
RateLimitCall ==
    LET bs == CleanedUp(buckets)
        bucket == GetBucket(bs, RateUser)
        tokens == Refilled(bucket)
        allowed == tokens >= OneToken
    IN /\ rl_hist.reqs_now < MaxSame
       /\ last_cleanup' = CleanupStamp
       /\ buckets' = [bs EXCEPT ![RateUser] =
             [present |-> TRUE,
              tokens |-> IF allowed THEN tokens - OneToken ELSE tokens,
              last_update |-> now]]
       /\ rl_hist' = [rl_hist EXCEPT
             !.reqs_now = @ + 1,
             !.admitted_now = IF allowed THEN @ + 1 ELSE @,
             !.last_admit = IF allowed THEN now ELSE @,
             !.created = IF bs[RateUser].present THEN @ ELSE now,
             !.win_count = IF allowed /\ rl_hist.win_start # NoTime THEN @ + 1 ELSE @]
       /\ rl_last' = IF allowed THEN "handled" ELSE "dropped"
       /\ UNCHANGED <<rl_config, now>>

\* __call__ for an event without from_user: sweep, then straight to the handler.
RateLimitCallNoUser ==
    /\ last_cleanup' = CleanupStamp
    /\ buckets' = CleanedUp(buckets)
    /\ rl_last' = "passed"
    /\ UNCHANGED <<rl_config, now, rl_hist>>

\* The clock moves on.
TimePasses ==
    /\ now < MaxTime
    /\ now' = now + 1
    /\ rl_hist' = [rl_hist EXCEPT !.reqs_now = 0, !.admitted_now = 0]
    /\ UNCHANGED <<rl_config, buckets, last_cleanup, rl_last>>

\* An observation window opens: the admits from now on are counted.
Observe ==
    /\ rl_hist.win_start = NoTime
    /\ rl_hist.reqs_now = 0
    /\ rl_hist' = [rl_hist EXCEPT !.win_start = now]
    /\ UNCHANGED <<rl_config, now, buckets, last_cleanup, rl_last>>

NextRate ==
    \/ RateLimitCall /\ UNCHANGED notRate
    \/ RateLimitCallNoUser /\ UNCHANGED notRate
    \/ TimePasses /\ UNCHANGED notRate
    \/ Observe /\ UNCHANGED notRate

\* The middleware at rest, for the specifications of the other subsystems.
RateIdle ==
    /\ InitRate
    /\ rl_config = [default_rate |-> 1, burst_size |-> 1]

(***************************************************************************)
(* Application: main(), MultibotApplication.start / shutdown and the       *)
(* SignalHandler, from the moment start() waits for the shutdown event.    *)
(***************************************************************************)

MaxSignals == 2

\* MultibotApplication.shutdown's steps, in order.
ShutdownSteps == <<"config_watcher", "bot_manager", "stats_collector",
                   "webhook_server", "health_server", "db">>

\* The awaits shutdown passes through, in order, with every component present
\* and a polling bot running.  absorbs: the await sits in a
\* try/except asyncio.CancelledError that swallows a cancellation of the
\* awaiting task.  raises: an exception of the awaited call reaches shutdown.
AwaitPoints ==
    << [step |-> "config_watcher",  absorbs |-> TRUE,  raises |-> FALSE, last |-> TRUE],
       [step |-> "bot_manager",     absorbs |-> TRUE,  raises |-> FALSE, last |-> FALSE],
       [step |-> "bot_manager",     absorbs |-> FALSE, raises |-> FALSE, last |-> TRUE],
       [step |-> "stats_collector", absorbs |-> TRUE,  raises |-> FALSE, last |-> FALSE],
       [step |-> "stats_collector", absorbs |-> FALSE, raises |-> FALSE, last |-> TRUE],
       [step |-> "webhook_server",  absorbs |-> FALSE, raises |-> TRUE,  last |-> TRUE],
       [step |-> "health_server",   absorbs |-> FALSE, raises |-> TRUE,  last |-> TRUE],
       [step |-> "db",              absorbs |-> FALSE, raises |-> TRUE,  last |-> TRUE] >>

\* The process has not exited.
NoExitCode == 0 - 1

InitApp ==
    /\ app_start = "waiting"
    /\ shutdown_event = FALSE
    /\ handlers = <<>>
    /\ stopped = {}
    /\ exit_code = NoExitCode

HandlerLive(h) == handlers[h].pc \in {"created", "shutdown"}

\* SIGTERM or SIGINT while start() waits: the loop's signal handler creates a
\* _handle_shutdown task.
SignalReceived ==
    /\ app_start = "waiting"
    /\ Len(handlers) < MaxSignals
    /\ handlers' = Append(handlers, [pc |-> "created", at |-> 0, cancelled |-> FALSE])
    /\ UNCHANGED <<app_start, shutdown_event, stopped, exit_code>>

\* _handle_shutdown up to its first suspension: the event is set, then the
\* shutdown callback runs up to its first await.
HandleShutdown(h) ==
    /\ handlers[h].pc = "created" /\ ~handlers[h].cancelled
    /\ shutdown_event' = TRUE
    /\ handlers' = [handlers EXCEPT ![h].pc = "shutdown", ![h].at = 1]
    /\ UNCHANGED <<app_start, stopped, exit_code>>

\* shutdown resumes after its current await and runs to the next one, or
\* returns after the last.
Advanced(h) ==
    LET k == handlers[h].at IN
    /\ stopped' = IF AwaitPoints[k].last THEN stopped \cup {AwaitPoints[k].step} ELSE stopped
    /\ handlers' = IF k = Len(AwaitPoints)
                   THEN [handlers EXCEPT ![h].pc = "done", ![h].cancelled = FALSE]
                   ELSE [handlers EXCEPT ![h].at = k + 1, ![h].cancelled = FALSE]

\* The awaited call completes.
ShutdownStepDone(h) ==
    /\ handlers[h].pc = "shutdown" /\ ~handlers[h].cancelled
    /\ Advanced(h)
    /\ UNCHANGED <<app_start, shutdown_event, exit_code>>

\* The awaited call raises: shutdown propagates it and _handle_shutdown logs it.
ShutdownStepRaises(h) ==
    /\ handlers[h].pc = "shutdown" /\ ~handlers[h].cancelled
    /\ AwaitPoints[handlers[h].at].raises
    /\ handlers' = [handlers EXCEPT ![h].pc = "failed"]
    /\ UNCHANGED <<app_start, shutdown_event, stopped, exit_code>>

\* wait_for_shutdown returns once the event is set, and start() with it;
\* asyncio.run then cancels every task that is left.
StartReturns ==
    /\ app_start = "waiting"
    /\ shutdown_event
    /\ app_start' = "returned"
    /\ handlers' = [h \in 1..Len(handlers) |->
                      IF HandlerLive(h) THEN [handlers[h] EXCEPT !.cancelled = TRUE]
                      ELSE handlers[h]]
    /\ UNCHANGED <<shutdown_event, stopped, exit_code>>

\* The cancellation reaches a task before its first step, or at an await that
\* nothing guards: neither shutdown nor _handle_shutdown catches CancelledError.
HandlerCancelled(h) ==
    /\ HandlerLive(h) /\ handlers[h].cancelled
    /\ handlers[h].pc = "shutdown" => ~AwaitPoints[handlers[h].at].absorbs
    /\ handlers' = [handlers EXCEPT ![h].pc = "cancelled"]
    /\ UNCHANGED <<app_start, shutdown_event, stopped, exit_code>>

\* The cancellation reaches a task at an await inside
\* try/except asyncio.CancelledError: it is swallowed and shutdown goes on.
CancellationAbsorbed(h) ==
    /\ handlers[h].pc = "shutdown" /\ handlers[h].cancelled
    /\ AwaitPoints[handlers[h].at].absorbs
    /\ Advanced(h)
    /\ UNCHANGED <<app_start, shutdown_event, exit_code>>

\* asyncio.run closes the loop once the cancelled tasks have ended; main returns 0.
ProcessExits ==
    /\ app_start = "returned"
    /\ exit_code = NoExitCode
    /\ \A h \in 1..Len(handlers) : ~HandlerLive(h)
    /\ exit_code' = 0
    /\ UNCHANGED <<app_start, shutdown_event, handlers, stopped>>

NextApp ==
    \/ SignalReceived /\ UNCHANGED notApp
    \/ \E h \in 1..Len(handlers) : HandleShutdown(h) /\ UNCHANGED notApp
    \/ \E h \in 1..Len(handlers) : ShutdownStepDone(h) /\ UNCHANGED notApp
    \/ \E h \in 1..Len(handlers) : ShutdownStepRaises(h) /\ UNCHANGED notApp
    \/ StartReturns /\ UNCHANGED notApp
    \/ \E h \in 1..Len(handlers) : HandlerCancelled(h) /\ UNCHANGED notApp
    \/ \E h \in 1..Len(handlers) : CancellationAbsorbed(h) /\ UNCHANGED notApp
    \/ ProcessExits /\ UNCHANGED notApp

\* The application at rest, for the specifications of the other subsystems.
AppIdle == InitApp

(***************************************************************************)
(* Plugin registry (resolve_dependencies) and DispatcherFactory's          *)
(* _attach_plugins.                                                        *)
(***************************************************************************)

PluginNames == {"start", "help", "admin"}
MaxDeps == 2
MaxRequested == 2

SeqsUpTo(S, n) == UNION {[1..k -> S] : k \in 0..n}
ToSet(q) == {q[i] : i \in 1..Len(q)}

\* BasePlugin.dependencies is a set: as the sequence its iteration yields.
DependencyLists == {q \in SeqsUpTo(PluginNames, MaxDeps) : Cardinality(ToSet(q)) = Len(q)}

\* The registries tried: every name is registered with some dependencies, or not at all.
Registries ==
    [PluginNames -> {[registered |-> TRUE, dependencies |-> q] : q \in DependencyLists}
                    \cup {[registered |-> FALSE, dependencies |-> <<>>]}]

NotCalled == [exc |-> "not called", name |-> None, list |-> <<>>]

Circular_Ignored(st, name) == st

\* raise ValueError("Circular dependency detected: {name}")
Circular(st, name) == [st EXCEPT !.exc = "ValueError", !.name = name]

Finish_Prepend(st, name) ==
    [st EXCEPT !.visiting = @ \ {name}, !.seen = @ \cup {name}, !.resolved = <<name>> \o @]

\* The end of visit: the name leaves visiting, is seen, and is appended.
Finish(st, name) ==
    [st EXCEPT !.visiting = @ \ {name}, !.seen = @ \cup {name}, !.resolved = Append(@, name)]

RECURSIVE visit(_, _, _)
RECURSIVE VisitEach(_, _, _)
\* visit(name) of resolve_dependencies on the frame st = resolved, seen,
\* visiting; an exception ends the whole call.
visit(reg, st, name) ==
    IF st.exc # None \/ name \in ToSet(st.resolved) THEN st
    ELSE IF name \in st.visiting THEN Circular(st, name)
    ELSE IF ~reg[name].registered THEN [st EXCEPT !.exc = "PluginNotFoundError", !.name = name]
    ELSE LET st2 == VisitEach(reg, [st EXCEPT !.visiting = @ \cup {name}], reg[name].dependencies)
         IN IF st2.exc # None THEN st2
            ELSE Finish(st2, name)

\* for n in names: if n not in seen: visit(n)
VisitEach(reg, st, names) ==
    IF names = <<>> \/ st.exc # None THEN st
    ELSE VisitEach(reg, IF Head(names) \in st.seen THEN st ELSE visit(reg, st, Head(names)),
                   Tail(names))

\* PluginRegistry.resolve_dependencies
resolve_dependencies(reg, names) ==
    LET st == VisitEach(reg, [resolved |-> <<>>, seen |-> {}, visiting |-> {},
                              exc |-> None, name |-> None], names)
    IN [exc |-> st.exc, name |-> st.name, list |-> IF st.exc = None THEN st.resolved ELSE <<>>]

\* The loading loop of _attach_plugins: create_plugin for each name in turn,
\* a failure is logged and the name left out.
LoadEach(reg, names) == SelectSeq(names, LAMBDA n : reg[n].registered)

\* DispatcherFactory._attach_plugins for the enabled plugins names: a
\* ValueError of resolve_dependencies falls back to the list as given, any
\* other exception leaves the factory.
AttachPlugins(reg, names) ==
    LET r == resolve_dependencies(reg, names) IN
    IF r.exc = None THEN [exc |-> None, name |-> None, list |-> LoadEach(reg, r.list)]
    ELSE IF r.exc = "ValueError" THEN [exc |-> None, name |-> None, list |-> LoadEach(reg, names)]
    ELSE r

InitPlugins ==
    /\ plugin_classes \in Registries
    /\ plugin_names \in SeqsUpTo(PluginNames, MaxRequested)
    /\ resolve_result = NotCalled
    /\ attach_result = NotCalled

ResolveCall ==
    /\ resolve_result = NotCalled
    /\ resolve_result' = resolve_dependencies(plugin_classes, plugin_names)
    /\ UNCHANGED <<plugin_classes, plugin_names, attach_result>>

\* create_dispatcher -> _attach_plugins, as create_bot awaits it.
CreateDispatcherCall ==
    /\ attach_result = NotCalled
    /\ attach_result' = AttachPlugins(plugin_classes, plugin_names)
    /\ UNCHANGED <<plugin_classes, plugin_names, resolve_result>>

NextPlugins ==
    \/ ResolveCall /\ UNCHANGED notPlugins
    \/ CreateDispatcherCall /\ UNCHANGED notPlugins

\* No registry in play, for the specifications of the other subsystems.
PluginsIdle ==
    /\ plugin_classes = [n \in PluginNames |-> [registered |-> FALSE, dependencies |-> <<>>]]
    /\ plugin_names = <<>>
    /\ resolve_result = NotCalled
    /\ attach_result = NotCalled

(***************************************************************************)
(* The middleware chain DispatcherFactory._setup_middleware builds, and    *)
(* ErrorHandlingMiddleware.                                                *)
(***************************************************************************)

EventTypes == {"message", "callback_query"}

\* The factory's collaborators and the bot's rate_limiting.enabled, then the
\* update: its kind, whether the rate limiter admits it, whether the plugin
\* handler raises, whether the store fails at the commit of the request's
\* session, whether answering the user works.
MwInputs ==
    [stats_collector : BOOLEAN, db : BOOLEAN, rate_limiting : BOOLEAN,
     event : EventTypes, admitted : BOOLEAN, handler_raises : BOOLEAN,
     commit_raises : BOOLEAN, notify_user : BOOLEAN, answer_raises : BOOLEAN]

\* _setup_middleware: the inner middlewares of one observer, outermost first
\* (aiogram runs them in the order of registration).
SetupMiddleware(in) ==
    <<"logging">>
    \o (IF in.stats_collector THEN <<"stats">> ELSE <<>>)
    \o (IF in.db THEN <<"database">> ELSE <<>>)
    \o (IF in.rate_limiting /\ in.event = "message" THEN <<"rate_limit">> ELSE <<>>)

NoOutcome == [result |-> "none", error_id |-> FALSE, notified |-> FALSE, errors |-> 0, raised |-> None]

\* The plugin handler, as the chain's caller sees it end.
Handler(in) == IF in.handler_raises THEN "exception" ELSE "handled"

\* ErrorHandlingMiddleware.__call__ around a handler: on an exception it draws
\* an error id, logs, tries to answer the user, and raises the exception again.
ErrorHandling(in) ==
    IF Handler(in) = "handled" THEN [NoOutcome EXCEPT !.result = "handled"]
    ELSE [NoOutcome EXCEPT !.result = "exception", !.error_id = TRUE, !.raised = "handler",
                           !.notified = in.notify_user /\ ~in.answer_raises]

\* RateLimitMiddleware and the plugin handler under it: the exception that
\* leaves them, None when the request is dropped or the handler returns.
RateLimited(in) ==
    IF "rate_limit" \in ToSet(SetupMiddleware(in)) /\ ~in.admitted THEN None
    ELSE IF in.handler_raises THEN "handler" ELSE None

\* DatabaseMiddleware: the rest of the chain runs inside db.session(), which
\* rolls back and raises again on an exception and commits on a return.
Database(in, raised) ==
    IF ~in.db THEN raised
    ELSE IF raised # None THEN raised
    ELSE IF in.commit_raises THEN "commit" ELSE None

StatsMiddleware_NoRecord(in, raised) == [errors |-> 0, raised |-> raised]

\* StatsMiddleware.__call__: an Exception of its handler (the rest of the
\* chain) is counted with record_error and raised again.
StatsMiddleware(in, raised) ==
    IF ~in.stats_collector THEN [errors |-> 0, raised |-> raised]
    ELSE [errors |-> IF raised # None THEN 1 ELSE 0, raised |-> raised]

InitMw ==
    /\ mw_input \in MwInputs
    /\ mw_trace = <<>>
    /\ mw_outcome = NoOutcome

\* The dispatcher feeds the update through the observer's middlewares to the
\* plugin handler; the rate limiter returns without calling on when it drops.
FeedUpdate ==
    LET chain == SetupMiddleware(mw_input)
        dropped == "rate_limit" \in ToSet(chain) /\ ~mw_input.admitted
    IN /\ mw_trace = <<>>
       /\ mw_trace' = IF dropped THEN chain ELSE Append(chain, "handler")
       /\ LET st == StatsMiddleware(mw_input, Database(mw_input, RateLimited(mw_input)))
          IN mw_outcome' = [NoOutcome EXCEPT
                 !.result = IF st.raised # None THEN "exception" ELSE "handled",
                 !.errors = st.errors, !.raised = st.raised]
       /\ UNCHANGED mw_input

\* ErrorHandlingMiddleware called with the plugin handler as its next.
ErrorHandlingCall ==
    /\ mw_trace = <<>>
    /\ mw_trace' = <<"error_handler", "handler">>
    /\ mw_outcome' = ErrorHandling(mw_input)
    /\ UNCHANGED mw_input

NextMw ==
    \/ FeedUpdate /\ UNCHANGED notMw
    \/ ErrorHandlingCall /\ UNCHANGED notMw

\* No update in play, for the specifications of the other subsystems.
MwIdle ==
    /\ mw_input = [stats_collector |-> FALSE, db |-> FALSE, rate_limiting |-> FALSE,
                   event |-> "message", admitted |-> TRUE, handler_raises |-> FALSE,
                   commit_raises |-> FALSE, notify_user |-> FALSE, answer_raises |-> FALSE]
    /\ mw_trace = <<>>
    /\ mw_outcome = NoOutcome

(***************************************************************************)
(* Webhook receiver: WebhookServer._webhook_handler                        *)
(***************************************************************************)

Secrets == {"", "s3cret"}
BotStates == {"stopped", "starting", "running", "stopping", "error"}

\* _get_bot_secret: the first 32 hex digits of sha256("{secret}:{bot_id}"),
\* as the pair it is computed from (no two pairs taken to collide).
GetBotSecret(secret, bot_id) == [secret |-> secret, bot_id |-> bot_id]

\* The X-Telegram-Bot-Api-Secret-Token headers tried: none, each bot's
\* derived secret, and the global secret itself.
HeaderTokens ==
    {GetBotSecret("", "")} \cup {GetBotSecret("s3cret", id) : id \in BotIds \cup {""}}

VerifySecret_Always(secret, token, bot_id) == TRUE

\* _verify_secret
VerifySecret(secret, token, bot_id) ==
    secret = "" \/ token = GetBotSecret(secret, bot_id)

\* The manager's changes of a bot's entry that the receiver can see between
\* two of its steps.
ManagerMoves ==
    {<<"absent", "stopped">>, <<"stopped", "absent">>, <<"stopped", "starting">>,
     <<"stopped", "running">>, <<"starting", "running">>, <<"starting", "stopping">>,
     <<"running", "stopping">>, <<"stopping", "stopped">>, <<"stopping", "error">>,
     <<"running", "error">>, <<"running", "stopped">>, <<"error", "starting">>,
     <<"error", "absent">>}

NoRequest ==
    [pc |-> "none", bot_id |-> "", token |-> GetBotSecret("", ""), seen |-> "absent",
     status |-> 0, fed |-> FALSE, fed_in |-> "absent"]

InitWebhook ==
    /\ wh_secret \in Secrets
    /\ wh_bots = [id \in BotIds |-> "absent"]
    /\ wh_request = NoRequest

ManagerMove(id, st) ==
    /\ <<wh_bots[id], st>> \in ManagerMoves
    /\ wh_bots' = [wh_bots EXCEPT ![id] = st]
    /\ UNCHANGED <<wh_secret, wh_request>>

\* _webhook_handler up to "await request.json()": the lookup, the state check
\* and the secret check, in this order.
WebhookHandler(id, token) ==
    LET st == wh_bots[id]
        status == IF st = "absent" THEN 404
                  ELSE IF st # "running" THEN 503
                  ELSE IF ~VerifySecret(wh_secret, token, id) THEN 401
                  ELSE 0
    IN /\ wh_request.pc # "reading"
       /\ wh_request' = [NoRequest EXCEPT !.pc = IF status = 0 THEN "reading" ELSE "done",
                                          !.bot_id = id, !.token = token, !.seen = st,
                                          !.status = status]
       /\ UNCHANGED <<wh_secret, wh_bots>>

\* The body is read and parsed, and the update fed to the dispatcher of the
\* instance looked up before: 200, or 500 when feed_update raises.
WebhookFeed(raises) ==
    /\ wh_request.pc = "reading"
    /\ wh_request' = [wh_request EXCEPT !.pc = "done", !.fed = TRUE,
                                        !.fed_in = wh_bots[wh_request.bot_id],
                                        !.status = IF raises THEN 500 ELSE 200]
    /\ UNCHANGED <<wh_secret, wh_bots>>

\* The body is no valid update: 500, nothing is fed.
WebhookBadBody ==
    /\ wh_request.pc = "reading"
    /\ wh_request' = [wh_request EXCEPT !.pc = "done", !.status = 500]
    /\ UNCHANGED <<wh_secret, wh_bots>>

NextWebhook ==
    \/ \E id \in BotIds, st \in BotStates \cup {"absent"} : ManagerMove(id, st) /\ UNCHANGED notWebhook
    \/ \E id \in BotIds, token \in HeaderTokens : WebhookHandler(id, token) /\ UNCHANGED notWebhook
    \/ \E raises \in BOOLEAN : WebhookFeed(raises) /\ UNCHANGED notWebhook
    \/ WebhookBadBody /\ UNCHANGED notWebhook

\* No receiver in play, for the specifications of the other subsystems.
WebhookIdle ==
    /\ wh_secret = ""
    /\ wh_bots = [id \in BotIds |-> "absent"]
    /\ wh_request = NoRequest

(***************************************************************************)
(* billing.decorators.requires_tokens                                      *)
(***************************************************************************)

\* A call of the wrapped handler: whether a Message/CallbackQuery is among
\* the arguments, whether the middleware injected a token_manager, whether
\* the event has a user, the user's balance and the decorator's cost,
\* whether on_insufficient was given, and whether consume fails on the
\* database or the notification fails.
WrapperCalls ==
    [event : BOOLEAN, token_manager : BOOLEAN, user : BOOLEAN,
     balance : 0..MaxFree, cost : Costs, on_insufficient : BOOLEAN,
     consume_raises : BOOLEAN, notify_raises : BOOLEAN]

NotRun == [called |-> FALSE, handler_ran |-> FALSE, returned |-> None, balance |-> 0,
           on_insufficient |-> 0, default_message |-> 0]

Insufficient_Never(balance, cost) == FALSE

\* consume_tokens finds no row with balance >= amount: TokenManager.consume
\* raises InsufficientTokensError.
Insufficient(balance, cost) == balance < cost

\* The wrapper of requires_tokens(cost, action) around func.
RequiresTokens(c) ==
    LET ran == [NotRun EXCEPT !.called = TRUE, !.balance = c.balance]
        run == [ran EXCEPT !.handler_ran = TRUE, !.returned = "result"]
    IN IF ~c.event \/ ~c.token_manager \/ ~c.user THEN run
       ELSE IF c.consume_raises THEN [ran EXCEPT !.returned = "Exception"]
       ELSE IF Insufficient(c.balance, c.cost)
       THEN [ran EXCEPT !.on_insufficient = IF c.on_insufficient THEN 1 ELSE 0,
                        !.default_message = IF c.on_insufficient THEN 0 ELSE 1,
                        !.returned = IF c.notify_raises THEN "Exception" ELSE None]
       ELSE [run EXCEPT !.balance = c.balance - c.cost]

InitTokenGate ==
    /\ rt_input \in WrapperCalls
    /\ rt_result = NotRun

WrapperCall ==
    /\ ~rt_result.called
    /\ rt_result' = RequiresTokens(rt_input)
    /\ UNCHANGED rt_input

NextTokenGate == WrapperCall /\ UNCHANGED notTokenGate

\* No wrapped handler in play, for the specifications of the other subsystems.
TokenGateIdle ==
    /\ rt_input = [event |-> FALSE, token_manager |-> FALSE, user |-> FALSE, balance |-> 0,
                   cost |-> 1, on_insufficient |-> FALSE, consume_raises |-> FALSE,
                   notify_raises |-> FALSE]
    /\ rt_result = NotRun

(***************************************************************************)
(* Cold start: ConfigManager.load_bot_configs and                          *)
(* MultibotApplication._load_and_start_bots                                *)
(***************************************************************************)

\* A bot's YAML file: absent, or a BotConfig with its token set or empty.
ConfigFiles(id) ==
    {[present |-> FALSE, token |-> FALSE, cfg |-> NoConfig]}
    \cup {[present |-> TRUE, token |-> t, cfg |-> c] : t \in BOOLEAN, c \in {x \in Configs : x.id = id}}

RECURSIVE LoadBotConfigs(_, _)
\* load_bot_configs over the files of ids: _load_and_register_bot keeps a
\* config only if its token is set and it is enabled.
LoadBotConfigs(files, ids) ==
    IF ids = {} THEN <<>>
    ELSE LET id == CHOOSE i \in ids : TRUE
             f == files[id]
         IN (IF f.present /\ f.token /\ f.cfg.enabled THEN <<f.cfg>> ELSE <<>>)
            \o LoadBotConfigs(files, ids \ {id})

RECURSIVE LoadAndStartM(_, _)
\* The loop of _load_and_start_bots: create_bot, then start_bot if enabled.
LoadAndStartM(m, cfgs) ==
    IF cfgs = <<>> THEN m
    ELSE LET m1 == CreateBotM(m, Head(cfgs))
             m2 == IF Head(cfgs).enabled THEN StartBotM(m1, Head(cfgs).id).m ELSE m1
         IN LoadAndStartM(m2, Tail(cfgs))

InitColdStart ==
    /\ config_files \in [BotIds -> UNION {ConfigFiles(id) : id \in BotIds}]
    /\ \A id \in BotIds : config_files[id] \in ConfigFiles(id)
    /\ bots_loaded = FALSE

LoadAndStartBots ==
    /\ ~bots_loaded
    /\ bots_loaded' = TRUE
    /\ SetM(LoadAndStartM(M, LoadBotConfigs(config_files, BotIds)))
    /\ UNCHANGED <<config_files, callers, last, ncalls>>

NextColdStart ==
    \/ LoadAndStartBots /\ UNCHANGED notColdStart
    \/ \E t \in 1..Len(tasks) : PollingLoopStart(t) /\ UNCHANGED notBots
    \/ \E t \in 1..Len(tasks) : PollingLoopStartRaise(t) /\ UNCHANGED notBots
    \/ \E t \in 1..Len(tasks) : PollingLoopReturn(t) /\ UNCHANGED notBots
    \/ \E t \in 1..Len(tasks) : PollingLoopRaise(t) /\ UNCHANGED notBots

\* No config directory in play, for the specifications of the other subsystems.
ColdStartIdle ==
    /\ config_files = [id \in BotIds |-> [present |-> FALSE, token |-> FALSE, cfg |-> NoConfig]]
    /\ bots_loaded = FALSE

(***************************************************************************)
(* PluginLoader over PluginRegistry: load_plugin, reload_plugin,           *)
(* unload_plugin.  A plugin file defines the class of its own name; its    *)
(* content is a version number that edits raise.                           *)
(***************************************************************************)

MaxVersion == 2

LoaderCall(op, name, exc) == [op |-> op, name |-> name, exc |-> exc]

InitLoader ==
    /\ plugin_files = [n \in PluginNames |-> 1]
    /\ loaded_modules = [n \in PluginNames |-> 0]
    /\ registered = [n \in PluginNames |-> 0]
    /\ loader_last = LoaderCall(None, None, None)

\* The plugin's file is edited on disk.
EditPluginFile(n) ==
    /\ plugin_files[n] < MaxVersion
    /\ plugin_files' = [plugin_files EXCEPT ![n] = @ + 1]
    /\ UNCHANGED <<loaded_modules, registered, loader_last>>

\* discover_plugins on one file: load_plugin tracks the module and returns
\* the class, which the registry registers; a load error is logged.
DiscoverPlugin(n, loads) ==
    /\ loaded_modules' = IF loads THEN [loaded_modules EXCEPT ![n] = plugin_files[n]] ELSE loaded_modules
    /\ registered' = IF loads THEN [registered EXCEPT ![n] = plugin_files[n]] ELSE registered
    /\ loader_last' = LoaderCall("discover_plugins", n, None)
    /\ UNCHANGED plugin_files

\* reload_plugin: refuse a plugin that is not loaded; else drop the module
\* and its path from the tracking, unregister, and load_plugin from the path.
ReloadPlugin(n, loads) ==
    /\ IF loaded_modules[n] = 0
       THEN /\ loader_last' = LoaderCall("reload_plugin", n, "PluginLoadError")
            /\ UNCHANGED <<loaded_modules, registered>>
       ELSE /\ registered' = [registered EXCEPT ![n] = 0]
            /\ loaded_modules' = [loaded_modules EXCEPT ![n] = IF loads THEN plugin_files[n] ELSE 0]
            /\ loader_last' = LoaderCall("reload_plugin", n, IF loads THEN None ELSE "PluginLoadError")
    /\ UNCHANGED plugin_files

\* unload_plugin: nothing for a plugin that is not loaded.
UnloadPlugin(n) ==
    /\ loaded_modules' = [loaded_modules EXCEPT ![n] = 0]
    /\ registered' = IF loaded_modules[n] = 0 THEN registered ELSE [registered EXCEPT ![n] = 0]
    /\ loader_last' = LoaderCall("unload_plugin", n, None)
    /\ UNCHANGED plugin_files

NextLoader ==
    \/ \E n \in PluginNames : EditPluginFile(n) /\ UNCHANGED notLoader
    \/ \E n \in PluginNames, loads \in BOOLEAN : DiscoverPlugin(n, loads) /\ UNCHANGED notLoader
    \/ \E n \in PluginNames, loads \in BOOLEAN : ReloadPlugin(n, loads) /\ UNCHANGED notLoader
    \/ \E n \in PluginNames : UnloadPlugin(n) /\ UNCHANGED notLoader

\* No loader in play, for the specifications of the other subsystems.
LoaderIdle == InitLoader

(***************************************************************************)
(* Hot reload: MultibotApplication._on_plugin_change                       *)
(***************************************************************************)

\* How a bot's config lists the changed plugin.
Listings == {"absent", "enabled", "disabled"}

\* The manager's bots in the order of its map, how each lists the plugin,
\* whether its reload_bot raises, and whether the plugin file loads.
PluginChanges ==
    [bots : {q \in SeqsUpTo(BotIds, 2) : Cardinality(ToSet(q)) = Len(q)},
     listing : [BotIds -> Listings], raises : [BotIds -> BOOLEAN], loads : BOOLEAN]

RECURSIVE ReloadMatching(_, _)
\* The loop over get_all_bots(): reload_bot for a bot one of whose plugin
\* entries has the plugin's name.  The loop is inside the handler's single
\* try, so the first reload_bot that raises ends it.
ReloadMatching(in, ids) ==
    IF ids = <<>> THEN <<>>
    ELSE IF in.listing[Head(ids)] = "absent" THEN ReloadMatching(in, Tail(ids))
    ELSE <<Head(ids)>> \o (IF in.raises[Head(ids)] THEN <<>> ELSE ReloadMatching(in, Tail(ids)))

\* _on_plugin_change: load (or reload) the plugin, then the loop; a load
\* error is logged and nothing is reloaded.
OnPluginChange(in) == IF in.loads THEN ReloadMatching(in, in.bots) ELSE <<>>

\* ---- ConfigWatcher ----

\* A change watchfiles reports under one of the two watched directories: the
\* kind of change and the file's name as prefix + stem + suffix (+ "~").
FsChanges ==
    [change_type : {"added", "modified", "deleted"}, dir : {"config_dir", "plugins_dir"},
     prefix : {"", ".", "_"}, suffix : {".yaml", ".yml", ".py", ".txt"}, tilde : BOOLEAN]

\* _handle_config_change
HandleConfigChange(c) == IF c.change_type = "deleted" THEN None ELSE "on_config_change"

\* _handle_plugin_change
HandlePluginChange(c) ==
    IF c.prefix = "_" THEN None
    ELSE IF c.change_type = "deleted" THEN None ELSE "on_plugin_change"

\* _handle_changes for one change: the callback invoked, None if none.  A
\* name that ends with "~" is skipped before its suffix is looked at.
HandleChanges(c) ==
    IF c.prefix = "." \/ c.tilde THEN None
    ELSE IF c.suffix \in {".yaml", ".yml"} THEN HandleConfigChange(c)
    ELSE IF c.suffix = ".py" THEN HandlePluginChange(c)
    ELSE None

NoFsChange == [in |-> [change_type |-> "added", dir |-> "config_dir", prefix |-> "",
                       suffix |-> ".txt", tilde |-> FALSE],
               done |-> FALSE, callback |-> None]

NoPluginChange ==
    [in |-> [bots |-> <<>>, listing |-> [b \in BotIds |-> "absent"],
             raises |-> [b \in BotIds |-> FALSE], loads |-> FALSE],
     done |-> FALSE, reloads |-> <<>>]

InitWatcher ==
    /\ fs_change \in {[NoFsChange EXCEPT !.in = c] : c \in FsChanges}
    /\ plugin_change = NoPluginChange

HandleChangesCall ==
    /\ ~fs_change.done
    /\ fs_change' = [fs_change EXCEPT !.done = TRUE, !.callback = HandleChanges(fs_change.in)]
    /\ UNCHANGED plugin_change

NextWatcher ==
    \/ HandleChangesCall /\ UNCHANGED notHotReload

InitHotReload ==
    /\ plugin_change \in {[in |-> i, done |-> FALSE, reloads |-> <<>>] : i \in PluginChanges}
    /\ fs_change = NoFsChange

OnPluginChangeCall ==
    /\ ~plugin_change.done
    /\ plugin_change' = [plugin_change EXCEPT !.done = TRUE, !.reloads = OnPluginChange(plugin_change.in)]
    /\ UNCHANGED fs_change

NextHotReload ==
    \/ OnPluginChangeCall /\ UNCHANGED notHotReload

\* No plugin change in play, for the specifications of the other subsystems.
HotReloadIdle == plugin_change = NoPluginChange /\ fs_change = NoFsChange

(***************************************************************************)
(* Specifications                                                          *)
(***************************************************************************)

Init == InitBots /\ LedgerIdle /\ StatsIdle /\ RateIdle /\ AppIdle /\ PluginsIdle /\ MwIdle /\ WebhookIdle /\ TokenGateIdle /\ ColdStartIdle /\ LoaderIdle /\ HotReloadIdle

Spec == Init /\ [][NextBots]_vars

\* The event loop runs every ready coroutine: a stop_bot whose awaits are over
\* goes on, and a created task takes its first step.  Nothing makes
\* dispatcher.start_polling return, or end on a cancellation, within a bound.
LoopRuns(p) == StopFinish(p) \/ StopFinishRaise(p)

TaskBegins(t) ==
    /\ t \in 1..Len(tasks)
    /\ PollingLoopNeverRan(t) \/ PollingLoopStart(t) \/ PollingLoopStartRaise(t)

\* The manager with shutdown() among its calls.
SpecManager == Init /\ [][NextManager]_vars

\* The manager with the progress of start_polling made visible.
SpecPolling == Init /\ [][NextPolling]_vars

SpecDrive == Init /\ [][NextDrive]_vars

SpecReload == Init /\ [][NextReload]_vars

SpecBotsLive ==
    /\ Init
    /\ [][NextBots]_vars
    /\ \A p \in Procs : WF_vars(LoopRuns(p) /\ UNCHANGED notBots)
    /\ \A t \in 1..MaxCalls : WF_vars(TaskBegins(t) /\ UNCHANGED notBots)

InitL == InitBots /\ InitLedger /\ StatsIdle /\ RateIdle /\ AppIdle /\ PluginsIdle /\ MwIdle /\ WebhookIdle /\ TokenGateIdle /\ ColdStartIdle /\ LoaderIdle /\ HotReloadIdle

SpecLedger == InitL /\ [][NextLedger]_vars

SpecLedgerClock == InitL /\ [][NextLedgerClock]_vars

InitS == InitBots /\ LedgerIdle /\ InitStats /\ RateIdle /\ AppIdle /\ PluginsIdle /\ MwIdle /\ WebhookIdle /\ TokenGateIdle /\ ColdStartIdle /\ LoaderIdle /\ HotReloadIdle

SpecStats == InitS /\ [][NextStats]_vars

SpecCollector == InitS /\ [][NextCollector]_vars

InitR == InitBots /\ LedgerIdle /\ StatsIdle /\ InitRate /\ AppIdle /\ PluginsIdle /\ MwIdle /\ WebhookIdle /\ TokenGateIdle /\ ColdStartIdle /\ LoaderIdle /\ HotReloadIdle

SpecRate == InitR /\ [][NextRate]_vars

InitA == InitBots /\ LedgerIdle /\ StatsIdle /\ RateIdle /\ InitApp /\ PluginsIdle /\ MwIdle /\ WebhookIdle /\ TokenGateIdle /\ ColdStartIdle /\ LoaderIdle /\ HotReloadIdle

SpecApp == InitA /\ [][NextApp]_vars

InitP == InitBots /\ LedgerIdle /\ StatsIdle /\ RateIdle /\ AppIdle /\ InitPlugins /\ MwIdle /\ WebhookIdle /\ TokenGateIdle /\ ColdStartIdle /\ LoaderIdle /\ HotReloadIdle

SpecPlugins == InitP /\ [][NextPlugins]_vars

InitM == InitBots /\ LedgerIdle /\ StatsIdle /\ RateIdle /\ AppIdle /\ PluginsIdle /\ InitMw /\ WebhookIdle /\ TokenGateIdle /\ ColdStartIdle /\ LoaderIdle /\ HotReloadIdle

SpecMw == InitM /\ [][NextMw]_vars

InitW == InitBots /\ LedgerIdle /\ StatsIdle /\ RateIdle /\ AppIdle /\ PluginsIdle /\ MwIdle /\ InitWebhook /\ TokenGateIdle /\ ColdStartIdle /\ LoaderIdle /\ HotReloadIdle

SpecWebhook == InitW /\ [][NextWebhook]_vars

InitT == InitBots /\ LedgerIdle /\ StatsIdle /\ RateIdle /\ AppIdle /\ PluginsIdle /\ MwIdle /\ WebhookIdle /\ InitTokenGate /\ ColdStartIdle /\ LoaderIdle /\ HotReloadIdle

SpecTokenGate == InitT /\ [][NextTokenGate]_vars

InitC == InitBots /\ LedgerIdle /\ StatsIdle /\ RateIdle /\ AppIdle /\ PluginsIdle /\ MwIdle /\ WebhookIdle /\ TokenGateIdle /\ InitColdStart /\ LoaderIdle /\ HotReloadIdle

SpecColdStart == InitC /\ [][NextColdStart]_vars

InitLd == InitBots /\ LedgerIdle /\ StatsIdle /\ RateIdle /\ AppIdle /\ PluginsIdle /\ MwIdle /\ WebhookIdle /\ TokenGateIdle /\ ColdStartIdle /\ InitLoader /\ HotReloadIdle

SpecLoader == InitLd /\ [][NextLoader]_vars

InitH == InitBots /\ LedgerIdle /\ StatsIdle /\ RateIdle /\ AppIdle /\ PluginsIdle /\ MwIdle /\ WebhookIdle /\ TokenGateIdle /\ ColdStartIdle /\ LoaderIdle /\ InitHotReload

SpecHotReload == InitH /\ [][NextHotReload]_vars

InitFs == InitBots /\ LedgerIdle /\ StatsIdle /\ RateIdle /\ AppIdle /\ PluginsIdle /\ MwIdle /\ WebhookIdle /\ TokenGateIdle /\ ColdStartIdle /\ LoaderIdle /\ InitWatcher

SpecWatcher == InitFs /\ [][NextWatcher]_vars

(***************************************************************************)
(* Claims about the bot manager                                            *)
(***************************************************************************)

LiveTasksOf(id) ==
    {t \in 1..Len(tasks) : TaskLive(t) /\ objs[tasks[t].obj].bot_id = id}

\* C1: no bot id ever has more than one live polling task, the tasks of
\* replaced or removed ManagedBot instances included.
C1_OneLivePollingTaskPerBot ==
    \A id \in BotIds : Cardinality(LiveTasksOf(id)) <= 1

\* C2: in every state of every ManagedBot, state = running iff started_at is set.
C2_RunningIffStartedAt ==
    \A o \in 1..Len(objs) : (objs[o].state = "running") <=> (objs[o].started_at # None)

\* A step in which start_bot(id) is called: directly, or by restart_bot after its sleep.
StartBotCalled(id) ==
    \/ StartBot(id)
    \/ \E p \in Procs : callers[p].id = id /\ RestartResume(p)

Registered(id, st) == bots[id] # 0 /\ objs[bots[id]].state = st

\* C3: start_bot called on a bot in starting, running or stopping fails with a
\* typed error, changes no ManagedBot and spawns no task.
C3_StartOnlyFromStoppedOrError ==
    [][\A id \in BotIds :
         (StartBotCalled(id) /\ bots[id] # 0
            /\ objs[bots[id]].state \in {"starting", "running", "stopping"})
         => (last'.exc \in {"BotAlreadyRunningError"} /\ UNCHANGED <<bots, objs, tasks>>)]_vars

\* C4: start_bot on a running bot raises BotAlreadyRunning and stop_bot on a
\* stopped bot raises BotNotRunning; either way no ManagedBot changes and no
\* task is spawned or cancelled.
C4_TypedErrorsLeaveBotUnchanged ==
    [][\A id \in BotIds :
         /\ (StartBotCalled(id) /\ Registered(id, "running"))
            => (last'.exc = "BotAlreadyRunningError" /\ UNCHANGED <<bots, objs, tasks>>)
         /\ ((\E p \in Procs : StopBot(p, id)) /\ Registered(id, "stopped"))
            => (last'.exc = "BotNotRunningError" /\ UNCHANGED <<bots, objs, tasks, callers>>)]_vars

\* C4's case: a start_bot that a running bot has just refused.
C4_Witness ==
    /\ last.op = "start_bot" /\ last.exc = "BotAlreadyRunningError"
    /\ Registered(last.id, "running")

\* C4's other case: a stop_bot that a stopped bot has just refused.
C4_WitnessStop ==
    /\ last.op = "stop_bot" /\ last.exc = "BotNotRunningError"
    /\ Registered(last.id, "stopped")

\* C15: a ManagedBot in stopped or error holds no polling task.
C15_StoppedOrErrorHasNoPollingTask ==
    \A o \in 1..Len(objs) :
        objs[o].state \in {"stopped", "error"} => objs[o].polling_task = 0

\* Start-up has settled: the instance is not waiting for its polling task's first step.
Settled(st) == IF st = "starting" THEN "running" ELSE st

\* C17: reload_bot(id, cfg) with cfg the bot's current config, called on a bot
\* in stopped, starting or error, leaves the bot registered under id in the
\* state it was in (running, for a bot that was starting).
C17_ReloadSameConfigPreservesState ==
    [][\A p \in Procs, id \in BotIds :
          (/\ bots[id] # 0
           /\ objs[bots[id]].state \in {"stopped", "starting", "error"}
           /\ ReloadBot(p, id, objs[bots[id]].config))
          => /\ bots'[id] # 0
             /\ Settled(objs'[bots'[id]].state) = Settled(objs[bots[id]].state)]_vars

\* C18: create_bot with an id that is already registered fails and leaves the
\* registered ManagedBot, its state and its polling task as they were.
C18_CreateBotRejectsRegisteredId ==
    [][\A cfg \in Configs :
          (bots[cfg.id] # 0 /\ CreateBot(cfg))
          => (last'.exc # None /\ UNCHANGED <<bots, objs, tasks>>)]_vars

TasksOfObj(o) == {t \in 1..Len(tasks) : tasks[t].obj = o}

\* C14: a bot never stays in stopping forever: every stop_bot ends with the
\* bot in stopped or error, whatever the joined polling task does.
C14_StopBotTerminates ==
    \A o \in 1..MaxCalls :
        (o \in 1..Len(objs) /\ objs[o].state = "stopping")
            ~> ~(o \in 1..Len(objs) /\ objs[o].state = "stopping")

\* C29: a reload_bot never takes out of the registry a ManagedBot that has a
\* polling task which is not done: it waits for a starting bot and stops it
\* first, so no polling loop outlives the reload of its bot.
C29_ReloadWaitsForStarting ==
    [][\A id \in BotIds :
         (/\ last'.op = "reload_bot" /\ last'.id = id
          /\ bots[id] # 0 /\ bots'[id] # bots[id])
         => \A t \in 1..Len(tasks) : tasks[t].obj = bots[id] => tasks'[t].status = "done"]_vars

\* C30: a polling bot is in state running only once the first polling call of
\* a polling task of it has succeeded.
C30_RunningOnlyAfterFirstPoll ==
    \A o \in 1..Len(objs) :
        (objs[o].mode = "polling" /\ objs[o].state = "running")
            => \E t \in polled : tasks[t].obj = o

\* C19: when shutdown() returns, no registered bot is in running, starting
\* or stopping.
C19_ShutdownStopsEveryBot ==
    [][(stop_all.pc # "returned" /\ stop_all'.pc = "returned")
         => \A id \in BotIds :
               bots'[id] # 0 => objs'[bots'[id]].state \notin {"running", "starting", "stopping"}]_vars

\* C13: stop_bot on a running or starting bot sets state = stopping and
\* cancels the live polling task before it waits; it goes on only when that
\* task is done, then closes the session and sets state = stopped with no
\* polling task, and returns normally.  For a bot started once, no polling
\* task of it is live afterwards.
C13_StopBotOrder ==
    [][\A p \in Procs :
         LET c == callers[p] IN
         /\ \A id \in BotIds :
               (StopBot(p, id) /\ bots[id] # 0 /\ objs[bots[id]].state \in {"running", "starting"})
               => LET o == bots[id]
                      t == objs[o].polling_task
                  IN /\ objs'[o].state = "stopping"
                     /\ objs'[o].session = objs[o].session
                     /\ objs'[o].polling_task = t
                     /\ (t # 0 /\ TaskLive(t)) => tasks'[t].cancelled
                     /\ callers'[p].pc = "stop_wait"
                     /\ last' = last
         /\ (c.op = "stop_bot" /\ StopFinish(p))
               => /\ c.join # 0 => (tasks[c.join].cancelled /\ tasks[c.join].status = "done")
                  /\ objs'[c.mb].session = "closed"
                  /\ objs'[c.mb].state = "stopped"
                  /\ objs'[c.mb].polling_task = 0
                  /\ last' = [op |-> "stop_bot", id |-> c.id, exc |-> None]
                  /\ Cardinality(TasksOfObj(c.mb)) <= 1
                       => \A t \in TasksOfObj(c.mb) : tasks'[t].status = "done"]_vars

\* C13's case: start_bot then stop_bot have returned a polling bot to stopped
\* after its cancelled task was joined.
C13_Witness ==
    /\ last.op = "stop_bot" /\ last.exc = None
    /\ \E o \in 1..Len(objs) :
          /\ objs[o].bot_id = last.id
          /\ objs[o].state = "stopped" /\ objs[o].session = "closed"
          /\ objs[o].polling_task = 0
          /\ \E t \in TasksOfObj(o) : tasks[t].cancelled /\ tasks[t].status = "done"

RECURSIVE SumAmounts(_, _)
SumAmounts(log, u) ==
    IF log = <<>> THEN 0
    ELSE (IF Head(log).telegram_id = u THEN Head(log).amount ELSE 0) + SumAmounts(Tail(log), u)

RowsOf(log, u) == SelectSeq(log, LAMBDA tx : tx.telegram_id = u)

C7_ConsumeAllOrNothing ==
    [][\A s \in Sessions :
         LET c == sess[s]
             u == c.user
         IN /\ \A v \in Users, cost \in Costs :
                  Consume(s, v, cost, "generate")
                    => /\ (sess'[s].pc = "commit")
                            <=> (urow[v].exists /\ urow[v].balance >= cost)
                       /\ sess'[s].pc \in {"commit", "get_balance"}
                       /\ urow' = urow /\ txlog' = txlog
            /\ (c.op = "consume" /\ Commit(s))
                  => /\ urow[u].exists /\ urow[u].balance >= c.amount
                     /\ urow' = [urow EXCEPT ![u] =
                           [exists |-> TRUE,
                            balance |-> urow[u].balance - c.amount,
                            total_purchased |-> urow[u].total_purchased,
                            total_consumed |-> urow[u].total_consumed + c.amount]]
                     /\ txlog' = Append(txlog,
                           [telegram_id |-> u, transaction_type |-> "consume",
                            amount |-> 0 - c.amount,
                            balance_after |-> urow[u].balance - c.amount,
                            reference_type |-> "action", reference_id |-> c.ref])
                     /\ lres'.exc = None /\ lres'.value = urow[u].balance - c.amount
            /\ (c.op = "consume" /\ ConsumeRaise(s))
                  => /\ lres'.exc = "InsufficientTokensError"
                     /\ lres'.required = c.amount
                     /\ lres'.available = (IF urow[u].exists THEN urow[u].balance ELSE 0)
                     /\ urow' = urow /\ txlog' = txlog]_vars

\* C7's case: a consume has been committed and a later one has been refused
\* for want of tokens.
C7_Witness ==
    /\ lres.op = "consume" /\ lres.exc = "InsufficientTokensError"
    /\ lres.required > lres.available
    /\ \E i \in 1..Len(txlog) :
          txlog[i].transaction_type = "consume" /\ txlog[i].telegram_id = lres.user

PurchaseRows(u, pid) ==
    {i \in 1..Len(txlog) : /\ txlog[i].telegram_id = u
                           /\ txlog[i].transaction_type = "purchase"
                           /\ txlog[i].reference_id = pid}

\* C8: purchases with one payment_id credit the package and append a purchase
\* row at most once.
C8_PurchaseIdempotentOnPaymentId ==
    \A u \in Users, pid \in PaymentIds :
        /\ Cardinality(PurchaseRows(u, pid)) <= 1
        /\ urow[u].total_purchased <= PackageTokens * Cardinality({q \in PaymentIds : PurchaseRows(u, q) # {}})

\* The welcome grants logged for user u.
WelcomeRows(u) ==
    {i \in 1..Len(txlog) : txlog[i].telegram_id = u /\ txlog[i].reference_type = "welcome"}

\* C33: first contact is initialised once: under any interleaving a call
\* returns is_new only when its commit created the user's balance row (so at
\* most once per user, rows never being deleted), a row created by
\* ensure_initialized holds free_tokens, and at most one welcome grant is logged.
C33_FirstContactOnce ==
    /\ [](\A u \in Users : Cardinality(WelcomeRows(u)) <= 1)
    /\ [][\A s \in Sessions :
            LET c == sess[s]
                u == c.user
            IN (Commit(s) /\ (c.is_new \/ lres'.is_new))
                  => /\ ~urow[u].exists /\ urow'[u].exists
                     /\ c.is_new /\ lres'.is_new
                     /\ c.op = "ensure_initialized"
                           => /\ urow'[u].balance = free_tokens
                              /\ \E v \in Users :
                                    /\ v = u
                                    /\ Cardinality(WelcomeRows(v)') = (IF free_tokens > 0 THEN 1 ELSE 0)]_vars

\* C33's case: two first requests of one user raced; one created the row and
\* the other failed on the unique index.
C33_Witness ==
    /\ lres.op = "ensure_initialized" /\ lres.exc = "IntegrityError"
    /\ urow[lres.user].exists /\ urow[lres.user].balance = free_tokens
    /\ free_tokens > 0 /\ Cardinality(WelcomeRows(lres.user)) = 1

\* C32: in every committed state, for every user with transactions, the
\* transaction row with the latest created_at carries the current balance
\* in balance_after, also when ledger transactions for the user overlap.
C32_LatestRowCarriesBalance ==
    \A u \in Users :
        \A i \in 1..Len(txlog) :
            (/\ txlog[i].telegram_id = u
             /\ \A j \in 1..Len(txlog) :
                   (j # i /\ txlog[j].telegram_id = u) => tx_created_at[j] < tx_created_at[i])
            => txlog[i].balance_after = GetBalance(u)

(***************************************************************************)
(* Claims about the rate limit middleware                                  *)
(***************************************************************************)

\* C11: over the interval since the observation window opened, stretched to
\* 1 / rate if shorter, the admitted requests of the user number at most
\* burst + rate * T (both sides in units of 1 / TicksPerMinute token).
C11_RateLimiterBound ==
    rl_hist.win_start # NoTime =>
        LET elapsed == (now - rl_hist.win_start) * rl_config.default_rate
        IN rl_hist.win_count * OneToken
              <= Burst + (IF elapsed >= OneToken THEN elapsed ELSE OneToken)

\* C12: of the N requests made at the instant a bucket is created exactly
\* min(N, burst) are admitted; a request reaches the handler iff it is
\* admitted; with burst = 1 a request is admitted exactly when no admit
\* precedes it or one whole token has refilled since the last admit,
\* whatever was dropped in between.
C12_BurstThenRefill ==
    /\ [](rl_hist.created = now =>
            rl_hist.admitted_now = Least(rl_hist.reqs_now, rl_config.burst_size))
    /\ [][RateLimitCall =>
            /\ (rl_last' = "handled") <=> (rl_hist'.admitted_now = rl_hist.admitted_now + 1)
            /\ (rl_last' = "dropped") <=> (rl_hist'.admitted_now = rl_hist.admitted_now)
            /\ rl_config.burst_size = 1 =>
                 ((rl_last' = "handled") <=>
                    \/ rl_hist.last_admit = NoTime
                    \/ (now - rl_hist.last_admit) * rl_config.default_rate >= TicksPerMinute)]_vars

\* C12's case: more requests than the burst arrive at the instant the bucket
\* is created; the burst is admitted and the rest dropped.
C12_Witness ==
    /\ rl_hist.created = now
    /\ rl_hist.reqs_now > rl_config.burst_size
    /\ rl_hist.admitted_now = rl_config.burst_size
    /\ rl_config.burst_size > 1
    /\ rl_last = "dropped"

\* C12's other case: with burst = 1, an admit one whole token after the last one.
C12_WitnessRefill ==
    /\ rl_config.burst_size = 1
    /\ rl_last = "handled"
    /\ rl_hist.created # now
    /\ rl_hist.last_admit = now

(***************************************************************************)
(* Claims about the statistics collector                                   *)
(***************************************************************************)

RECURSIVE Persisted(_, _, _)
\* The sum of a counter column over the committed rows of bot b, hours 0..h.
Persisted(b, column, h) ==
    bot_statistics[b][h][column] + (IF h = 0 THEN 0 ELSE Persisted(b, column, h - 1))

\* C9: for each bot and each of the message, command, callback and error
\* counters, what committed flushes have persisted plus what is held in memory
\* equals the number of recorded events; a failed flush leaves every
\* in-memory counter as it was.
C9_StatsConservation ==
    /\ [](\A b \in BotIds :
            /\ Persisted(b, "message_count", MaxHour) + message_counts[b] = recorded[b].message
            /\ Persisted(b, "command_count", MaxHour) + command_counts[b] = recorded[b].command
            /\ Persisted(b, "callback_count", MaxHour) + callback_counts[b] = recorded[b].callback
            /\ Persisted(b, "error_count", MaxHour) + error_counts[b] = recorded[b].error)
    /\ [][(flushed' = "failed" /\ flush.pc # "idle") => UNCHANGED counterVars]_vars

\* C9's case: a flush has persisted events, more have been recorded since, and
\* the flush that followed failed.
C9_Witness ==
    /\ flushed = "failed"
    /\ \E b \in BotIds :
          /\ Persisted(b, "message_count", MaxHour) + Persisted(b, "command_count", MaxHour) > 0
          /\ message_counts[b] + command_counts[b] > 0

\* C10: a successful flush adds to command_usage[c] of each flushed bot's row
\* for the hour bucket exactly the c commands recorded since the previous
\* flush, for a new row and for an existing one.
C10_CommandUsageMergedBySumming ==
    [][FlushCommit =>
         \A b \in flush.bots, c \in Commands :
            bot_statistics'[b][flush.hour_bucket].command_usage[c]
               = bot_statistics[b][flush.hour_bucket].command_usage[c] + command_usage[b][c]]_vars

\* C34: once stop() has returned against a working store, the in-memory
\* counters are empty and every recorded event is persisted exactly once,
\* wherever the cancellation met the periodic flush.  Stated for the message,
\* command, callback and error events (new-user events are C35's subject).
C34_StopFlushesOnce ==
    collector = "stopped"
    => /\ message_counts = NoCounts /\ command_counts = NoCounts
       /\ callback_counts = NoCounts /\ error_counts = NoCounts
       /\ \A b \in BotIds :
             /\ Persisted(b, "message_count", MaxHour) = recorded[b].message
             /\ Persisted(b, "command_count", MaxHour) = recorded[b].command
             /\ Persisted(b, "callback_count", MaxHour) = recorded[b].callback
             /\ Persisted(b, "error_count", MaxHour) = recorded[b].error

\* C35: new-user events are not lost: for every bot, the new_users persisted
\* in its stats buckets plus the new-user count held in memory equals the
\* number of record_new_user calls for it, whatever else was recorded.
C35_NewUsersNotLost ==
    \A b \in BotIds :
        Persisted(b, "new_users", MaxHour) + new_user_counts[b] = recorded[b].new_user

(***************************************************************************)
(* Claims about the application                                            *)
(***************************************************************************)

AllStopped == stopped = {ShutdownSteps[k] : k \in 1..Len(ShutdownSteps)}

\* C20: once shutdown has been requested, start() does not return and the
\* process does not exit before every shutdown step has completed; the exit
\* code is 0.
C20_ShutdownCompletesBeforeExit ==
    /\ (app_start = "returned" \/ exit_code # NoExitCode) => AllStopped
    /\ exit_code \in {NoExitCode, 0}

(***************************************************************************)
(* Claims about the plugin registry and the dispatcher factory             *)
(***************************************************************************)

DepsOf(n) == IF plugin_classes[n].registered THEN ToSet(plugin_classes[n].dependencies) ELSE {}

RECURSIVE DepClosure(_)
DepClosure(S) ==
    LET T == S \cup UNION {DepsOf(n) : n \in S} IN IF T = S THEN S ELSE DepClosure(T)

\* The requested plugins with their transitive dependencies.
Reachable == DepClosure(ToSet(plugin_names))
OnCycle(n) == n \in DepClosure(DepsOf(n))
Cyclic == \E n \in Reachable : OnCycle(n)
AllRegistered == \A n \in Reachable : plugin_classes[n].registered
Resolved == resolve_result.exc # "not called"

\* C21: with every reachable plugin registered and no cycle among them,
\* resolve_dependencies returns a list without duplicates that holds every
\* requested plugin and every transitive dependency, each dependency at a
\* smaller index than its dependents.
C21_ResolveIsTopologicalOrder ==
    (Resolved /\ AllRegistered /\ ~Cyclic) =>
        LET l == resolve_result.list IN
        /\ resolve_result.exc = None
        /\ Cardinality(ToSet(l)) = Len(l)
        /\ Reachable \subseteq ToSet(l)
        /\ \A i \in 1..Len(l) : \A d \in DepsOf(l[i]) : \E j \in 1..(i - 1) : l[j] = d

C21_Witness ==
    /\ Resolved /\ AllRegistered /\ ~Cyclic
    /\ Len(plugin_names) = 1
    /\ Len(resolve_result.list) = 3
    /\ \E n \in PluginNames : Cardinality(DepsOf(n)) = 2

\* C22 as stated: whenever a cycle is reachable from the requested plugins,
\* the call fails with the cycle error and names a plugin on a cycle.
C22_CycleAlwaysCycleError ==
    (Resolved /\ Cyclic) => (resolve_result.exc = "ValueError" /\ OnCycle(resolve_result.name))

\* C22, amended: the call never returns an ordering when a cycle is
\* reachable; a cycle error is raised only for a plugin on a cycle; and when
\* every reachable plugin is registered the failure is that cycle error.
\* (With an unregistered plugin reachable too, the failure may be
\* PluginNotFoundError, whichever the traversal meets first.)
C22_CycleNeverOrdered ==
    Resolved =>
        /\ Cyclic => resolve_result.exc \in {"ValueError", "PluginNotFoundError"}
        /\ resolve_result.exc = "ValueError" => OnCycle(resolve_result.name)
        /\ resolve_result.exc = "PluginNotFoundError" => ~plugin_classes[resolve_result.name].registered
        /\ (Cyclic /\ AllRegistered) => resolve_result.exc = "ValueError"

C22_Witness ==
    /\ Resolved /\ Cyclic /\ AllRegistered
    /\ resolve_result.exc = "ValueError"
    /\ resolve_result.name \notin DepsOf(resolve_result.name)

\* C23: create_dispatcher succeeds whatever the plugin list names, and
\* attaches every enabled plugin that is registered.
C23_AttachIsBestEffort ==
    attach_result.exc # "not called" =>
        /\ attach_result.exc = None
        /\ {n \in ToSet(plugin_names) : plugin_classes[n].registered} \subseteq ToSet(attach_result.list)

(***************************************************************************)
(* Claims about the middleware chain                                       *)
(***************************************************************************)

\* The order the updates are to pass, outermost first.
MiddlewareOrder == <<"logging", "stats", "database", "tokens", "rate_limit", "error_handler", "handler">>
OrderIndex(x) == CHOOSE i \in 1..Len(MiddlewareOrder) : MiddlewareOrder[i] = x
FedByDispatcher == mw_trace # <<>> /\ Head(mw_trace) = "logging"

\* C24: an update fed by the dispatcher enters the middlewares in the order
\* logging, stats, store-session, tokens, rate-limit, error-handler; the
\* plugin handler is entered from the error handler, and only after every
\* configured middleware (the rate limiter when rate limiting is enabled) has
\* admitted the update.
C24_MiddlewareOrder ==
    FedByDispatcher =>
        /\ \A i, j \in 1..Len(mw_trace) : i < j => OrderIndex(mw_trace[i]) < OrderIndex(mw_trace[j])
        /\ \A i \in 2..Len(mw_trace) : mw_trace[i] = "handler" => mw_trace[i - 1] = "error_handler"
        /\ ("handler" \in ToSet(mw_trace) /\ mw_input.rate_limiting) => "rate_limit" \in ToSet(mw_trace)

\* C25: when the plugin handler raises inside the error-handling middleware,
\* the middleware assigns an error id and its caller receives a handled
\* result, not the exception.
C25_HandlerExceptionHandled ==
    (mw_trace = <<"error_handler", "handler">> /\ mw_input.handler_raises) =>
        (mw_outcome.result = "handled" /\ mw_outcome.error_id)

\* C36: with the stats middleware in the chain, a raising plugin handler has
\* exactly one error recorded for the update and the same exception leaves
\* the middleware; when the call the middleware wraps (the rest of the chain
\* down to the plugin handler) returns, no error is recorded.
C36_StatsSeesHandlerException ==
    (FedByDispatcher /\ "stats" \in ToSet(mw_trace)) =>
        /\ ("handler" \in ToSet(mw_trace) /\ mw_input.handler_raises)
              => (mw_outcome.errors = 1 /\ mw_outcome.raised = "handler"
                  /\ mw_outcome.result = "exception")
        /\ mw_outcome.result = "handled" => mw_outcome.errors = 0
        /\ mw_outcome.errors = 1 <=> mw_outcome.raised # None

\* C36's case: the handler raised under the stats, store-session and
\* rate-limit middlewares and the error was recorded.
C36_Witness ==
    /\ mw_trace = <<"logging", "stats", "database", "rate_limit", "handler">>
    /\ mw_input.handler_raises
    /\ mw_outcome.errors = 1 /\ mw_outcome.raised = "handler"

(***************************************************************************)
(* Claims about the webhook receiver                                       *)
(***************************************************************************)

\* C26 as stated: an update is fed only to a bot that is registered and
\* running at the moment it is fed.
C26_FedOnlyWhileRunning ==
    wh_request.fed => wh_request.fed_in = "running"

\* C26, amended: the handler answers 404 for an unknown bot, else 503 for a
\* bot that is not running, else 401 for a wrong secret token when a secret
\* is configured, and feeds nothing in these cases; an update is fed only
\* for a request whose bot was registered and running when the handler
\* looked it up and whose token passed.
C26_WebhookChecks ==
    LET q == wh_request
        ok == wh_secret = "" \/ q.token = GetBotSecret(wh_secret, q.bot_id)
    IN q.pc # "none" =>
        /\ q.status = 404 <=> q.seen = "absent"
        /\ q.status = 503 <=> q.seen \notin {"absent", "running"}
        /\ q.status = 401 <=> (q.seen = "running" /\ ~ok)
        /\ q.status \in {404, 503, 401} => ~q.fed
        /\ (q.fed \/ q.pc = "reading") => (q.seen = "running" /\ ok)

C26_Witness ==
    /\ wh_secret # ""
    /\ wh_request.fed /\ wh_request.status = 200
    /\ wh_request.fed_in = "running"

(***************************************************************************)
(* Claims about requires_tokens                                            *)
(***************************************************************************)

\* C28: with an event, a token_manager and a user present, the handler body
\* runs only when consume has succeeded (the balance covered the cost and is
\* reduced by it); when consume raises InsufficientTokens the body does not
\* run, nothing is consumed, the user is notified exactly once, through
\* on_insufficient if given and through the default message otherwise, and
\* the wrapper returns None once the notification has been sent.
C28_HandlerRunsOnlyAfterConsume ==
    LET c == rt_input
        r == rt_result
    IN (r.called /\ c.event /\ c.token_manager /\ c.user) =>
        /\ r.handler_ran =>
              (c.balance >= c.cost /\ r.balance = c.balance - c.cost
               /\ r.on_insufficient + r.default_message = 0)
        /\ (c.balance < c.cost /\ ~c.consume_raises) =>
              /\ ~r.handler_ran
              /\ r.balance = c.balance
              /\ r.on_insufficient = (IF c.on_insufficient THEN 1 ELSE 0)
              /\ r.default_message = (IF c.on_insufficient THEN 0 ELSE 1)
              /\ ~c.notify_raises => r.returned = None

C28_Witness ==
    /\ rt_result.called /\ rt_input.event /\ rt_input.token_manager /\ rt_input.user
    /\ rt_input.balance < rt_input.cost /\ rt_input.balance > 0
    /\ rt_result.default_message = 1 /\ rt_result.returned = None

(***************************************************************************)
(* Claims about the cold start                                             *)
(***************************************************************************)

\* check_bots / get_running_bots: the bots counted as running.
RunningBots == {id \in BotIds : bots[id] # 0 /\ objs[bots[id]].state = "running"}

\* C27: with an enabled config a and a disabled config b, both with a token,
\* once startup is over and a's polling has begun the manager holds both
\* bots, a running and b stopped, and exactly one bot counts as running.
C27_ColdStart ==
    (/\ bots_loaded
     /\ config_files["a"].present /\ config_files["a"].token /\ config_files["a"].cfg.enabled
     /\ config_files["b"].present /\ config_files["b"].token /\ ~config_files["b"].cfg.enabled
     /\ \A t \in 1..Len(tasks) : tasks[t].status = "polling")
    => /\ bots["a"] # 0 /\ objs[bots["a"]].state = "running"
       /\ bots["b"] # 0 /\ objs[bots["b"]].state = "stopped"
       /\ Cardinality(RunningBots) = 1

(***************************************************************************)
(* Claims about the update source of a bot                                 *)
(***************************************************************************)

\* The polling task of ManagedBot o is suspended in start_polling.
Polling(o) == \E t \in 1..Len(tasks) : tasks[t].obj = o /\ tasks[t].status = "polling"

\* C31: one update source per bot: the webhook handler feeds only
\* webhook-mode bots, a webhook-mode bot has no polling task, and no bot is
\* driven by its polling task and the webhook handler at the same time.
C31_OneUpdateSource ==
    /\ feeding # 0 => objs[feeding].mode = "webhook" /\ ~Polling(feeding)
    /\ \A t \in 1..Len(tasks) : objs[tasks[t].obj].mode = "polling"

(***************************************************************************)
(* Claims about the plugin loader                                          *)
(***************************************************************************)

\* C37: after a successful reload_plugin(name) the registry holds the newly
\* loaded class under name and the loader has name loaded.
C37_ReloadRegistersAgain ==
    (loader_last.op = "reload_plugin" /\ loader_last.exc = None)
    => /\ registered[loader_last.name] = plugin_files[loader_last.name]
       /\ loaded_modules[loader_last.name] # 0

(***************************************************************************)
(* Claims about hot reload                                                 *)
(***************************************************************************)

\* The number of reload_bot calls made for bot id.
ReloadCalls(id) ==
    Cardinality({i \in 1..Len(plugin_change.reloads) : plugin_change.reloads[i] = id})

\* C38: after a plugin change whose plugin loaded, reload_bot has been called
\* exactly once for every managed bot that lists the plugin enabled, whatever
\* the other bots' reloads did, and not at all for a bot that does not list
\* it or lists it disabled.
C38_ReloadsExactlyTheUsers ==
    (plugin_change.done /\ plugin_change.in.loads)
    => \A id \in ToSet(plugin_change.in.bots) :
          ReloadCalls(id) = (IF plugin_change.in.listing[id] = "enabled" THEN 1 ELSE 0)

\* The callback the routing rule names for a change.
Routed(c) ==
    IF c.change_type = "deleted" \/ c.prefix = "." \/ c.tilde THEN None
    ELSE IF c.suffix \in {".yaml", ".yml"} /\ c.dir = "config_dir" THEN "on_config_change"
    ELSE IF c.suffix = ".py" /\ c.dir = "plugins_dir" /\ c.prefix # "_" THEN "on_plugin_change"
    ELSE None

\* C39: each settled change is routed by path: a non-deleted YAML file under
\* the config directory to on_config_change, a non-deleted .py file under the
\* plugins directory whose name does not start with "_" to on_plugin_change,
\* and nothing else (deletions, hidden files, backup files, files outside
\* the matching directory) to any callback.
C39_RoutedByPath ==
    fs_change.done => fs_change.callback = Routed(fs_change.in)

\* A reload_bot(id, cfg) of a registered bot ends in this step, by returning
\* or by raising.
ReloadBotEnds(id) ==
    \/ /\ bots[id] # 0
       /\ last' = [op |-> "reload_bot", id |-> id, exc |-> last'.exc]
       /\ ncalls' = ncalls + 1
       /\ callers' = callers
    \/ \E p \in Procs :
          /\ callers[p].op = "reload_bot" /\ callers[p].id = id
          /\ callers'[p].pc = "idle"

\* C40: reload_bot never loses a bot: when reload_bot(id, cfg) of a
\* registered bot returns or raises, a ManagedBot is registered under id.
C40_ReloadNeverLosesBot ==
    [][\A id \in BotIds : ReloadBotEnds(id) => bots'[id] # 0]_vars

====
